---- MODULE Spec2Model ----
(***************************************************************************)
(* Model of the addTaskManager MCP server (ADD framework: Assess, Decide,  *)
(* Do).  The server keeps no item store of its own: every handler reads    *)
(* the item through mockFetchItem, which synthesises the item from its     *)
(* record name and the instant of the call, and the mutating handlers only *)
(* build a response.  The state is therefore the clock, the user token and *)
(* the outcome of the last tool call.                                      *)
(*                                                                         *)
(* JavaScript values that may be null are modelled as options: <<>> is     *)
(* null and <<v>> is the value v.  An ISO date string is <<t>> with t the  *)
(* instant in milliseconds it denotes (toISOString and new Date(string)    *)
(* are exact at millisecond precision).                                    *)
(***************************************************************************)
EXTENDS Integers, Sequences, FiniteSets, TLC

VARIABLES now, userToken, last, projectTasks, productionMode, authenticated,
          sessions, currentSession, store, recent, requests, rateLimitMap,
          passes, auditLog, lapsed, invalidated, starting

\* projectTasks is a history variable: the <<task, project>> references the
\* server has acknowledged adding and not acknowledged removing.  The server
\* itself keeps none.

\* the state of a production deployment: the server's productionMode flag
\* and currentSession, the CloudKit service's authenticated flag, the
\* authentication service's session map and the records of the CloudKit
\* database; recent is a history variable, the classification queries
\* answered since the clock, the database or the session last changed
\* the rest of the authentication service and of its middleware: the
\* instants kept under the rate limit key 'auth_rate_limit' and the audit
\* log.  History variables: passes, the instants of the attempts that
\* passed the rate limit and may still share a window with a later one;
\* lapsed, the ids of the sessions whose expiry instant has passed;
\* invalidated, the ids validateSession removed as expired.  starting holds
\* while the initializeCloudKit call of the constructor has not completed.
service == <<rateLimitMap, passes, auditLog, lapsed, invalidated, starting>>

production ==
  <<productionMode, authenticated, sessions, currentSession, store, recent,
    service>>

\* requests holds the tool requests whose handler is suspended at an await
vars == <<now, userToken, last, projectTasks, production, requests>>

(* ------------------------------ bounds --------------------------------- *)

\* number of milliseconds the clock may advance in a behaviour
MaxTicks == 2

\* first instant of a behaviour, in days since the epoch
StartDay == 2

\* rateLimiting.windowMs and rateLimiting.maxRequests of the deployment
RateWindow == 1

MaxRequests == 1

\* the number of entries logAudit keeps (1000 in the code)
AuditLimit == 3

(* --------------------------- program constants ------------------------- *)

REALM_ASSESS_ID == 1
REALM_DECIDE_ID == 2
REALM_DO_ID == 3

\* the offset mockFetchItem uses for "yesterday" and "tomorrow"
DayMs == 86400000

null == <<>>

T0 == StartDay * DayMs

ItemTypes == {"Task", "Project"}

(* ------------------------------ record names --------------------------- *)

\* the record names the tool calls are made with, and their characters
RecordNames ==
  {"assess1", "undecided", "stalled", "ready", "do1", "todo", "t123",
   "ready_do", "do_assess"}

\* the record names createTask and createProject give: a prefix and a uuid
\* (hexadecimal digits and dashes)
CreatedNames == {"task_ck_a1", "project_ck_a1"}

Chars(name) ==
  CASE name = "assess1"   -> <<"a","s","s","e","s","s","1">>
    [] name = "undecided" -> <<"u","n","d","e","c","i","d","e","d">>
    [] name = "stalled"   -> <<"s","t","a","l","l","e","d">>
    [] name = "ready"     -> <<"r","e","a","d","y">>
    [] name = "do1"       -> <<"d","o","1">>
    [] name = "todo"      -> <<"t","o","d","o">>
    [] name = "t123"      -> <<"t","1","2","3">>
    [] name = "ready_do"  -> <<"r","e","a","d","y","_","d","o">>
    [] name = "do_assess" -> <<"d","o","_","a","s","s","e","s","s">>
    [] name = "task_ck_a1" -> <<"t","a","s","k","_","c","k","_","a","1">>
    [] name = "project_ck_a1" ->
         <<"p","r","o","j","e","c","t","_","c","k","_","a","1">>

\* the patterns mockFetchItem looks for in a record name
Patterns ==
  {<<"a","s","s","e","s","s">>, <<"u","n","d","e","c","i","d","e","d">>,
   <<"s","t","a","l","l","e","d">>, <<"r","e","a","d","y">>, <<"d","o">>}

\* whether the pattern occurs in the name, for every name and pattern
Occurs ==
  [name \in RecordNames \cup CreatedNames, pattern \in Patterns |->
     \E i \in 1 .. (Len(Chars(name)) - Len(pattern) + 1) :
        SubSeq(Chars(name), i, i + Len(pattern) - 1) = pattern]

\* String.prototype.includes
includes(name, pattern) == Occurs[name, pattern]

(* ------------------------------ realm mapping -------------------------- *)

\* the labels a caller may pass; "done" stands for any label outside the three
RealmStrings == {"assess", "decide", "do", "done"}

\* realmStringToId: threw = TRUE models the McpError(InvalidParams) it throws
realmStringToId(realmStr) ==
  IF realmStr = "assess" THEN [threw |-> FALSE, id |-> REALM_ASSESS_ID]
  ELSE IF realmStr = "decide" THEN [threw |-> FALSE, id |-> REALM_DECIDE_ID]
  ELSE IF realmStr = "do" THEN [threw |-> FALSE, id |-> REALM_DO_ID]
  ELSE [threw |-> TRUE, id |-> 0]

\* realmIdToString letting every other id fall through to 'do'
realmIdToString_FallsThrough(realmId) ==
  IF realmId = REALM_ASSESS_ID THEN [threw |-> FALSE, label |-> "assess"]
  ELSE IF realmId = REALM_DECIDE_ID THEN [threw |-> FALSE, label |-> "decide"]
  ELSE [threw |-> FALSE, label |-> "do"]

\* realmIdToString: threw = TRUE models the McpError(InternalError) it throws
realmIdToString(realmId) ==
  IF realmId = REALM_ASSESS_ID THEN [threw |-> FALSE, label |-> "assess"]
  ELSE IF realmId = REALM_DECIDE_ID THEN [threw |-> FALSE, label |-> "decide"]
  ELSE IF realmId = REALM_DO_ID THEN [threw |-> FALSE, label |-> "do"]
  ELSE [threw |-> TRUE, label |-> ""]

(* ------------------------------ the item source ------------------------ *)

toISOString(t) == <<t>>

\* new Date(isoString).getTime()
DateOf(iso) == iso[1]

Item(name, itemType, realmId, ctx, endDate) ==
  [recordName |-> name, type |-> itemType, realmId |-> realmId,
   contextRecordName |-> ctx, endDate |-> endDate]

\* mockFetchItem at instant t: the item is decided by the first pattern
\* the record name contains
mockFetchItem(name, itemType, t) ==
  IF includes(name, <<"a","s","s","e","s","s">>)
    THEN Item(name, itemType, REALM_ASSESS_ID, null, null)
  ELSE IF includes(name, <<"u","n","d","e","c","i","d","e","d">>)
    THEN Item(name, itemType, REALM_DECIDE_ID, null, null)
  ELSE IF includes(name, <<"s","t","a","l","l","e","d">>)
    THEN Item(name, itemType, REALM_DECIDE_ID, <<"context_work">>,
              toISOString(t - DayMs))
  ELSE IF includes(name, <<"r","e","a","d","y">>)
    THEN Item(name, itemType, REALM_DECIDE_ID, <<"context_work">>,
              toISOString(t + DayMs))
  ELSE IF includes(name, <<"d","o">>)
    THEN Item(name, itemType, REALM_DO_ID, <<"context_work">>,
              toISOString(t))
  ELSE Item(name, itemType, REALM_ASSESS_ID, null, null)

(* ------------------------------ the validator -------------------------- *)

\* a message: the template text, the item type and record name it is about,
\* the date and the realm id it prints (null, 0 when it prints none) and the
\* sentence moveItemToRealm appends to it
Msg(itemType, name, text, date, realmId, note) ==
  [itemType |-> itemType, name |-> name, text |-> text, date |-> date,
   realmId |-> realmId, note |-> note]

\* a validation result; date is the due date the reason prints, if any
Decision(valid, itemType, text, date) ==
  [valid |-> valid, reason |-> Msg(itemType, "", text, date, 0, "")]

\* validateFromAssess with the skip to Do held to Decide's preconditions
validateFromAssess_DoNeedsContext(item, targetRealmId, itemType) ==
  IF targetRealmId = REALM_DECIDE_ID
    THEN Decision(TRUE, "", "Valid progression from Assess to Decide realm",
                  null)
  ELSE IF targetRealmId = REALM_DO_ID
    THEN IF item.contextRecordName = null
           THEN Decision(FALSE, itemType,
                  "must have a context assigned before moving to Do realm",
                  null)
           ELSE Decision(TRUE, itemType,
                  "moved directly from Assess to Do (skipping Decide) - ensure context and due date are set",
                  null)
  ELSE IF targetRealmId = REALM_ASSESS_ID
    THEN Decision(FALSE, itemType, "is already in Assess realm", null)
  ELSE Decision(FALSE, "", "Invalid target realm ID", null)

validateFromAssess(item, targetRealmId, itemType) ==
  IF targetRealmId = REALM_DECIDE_ID
    THEN Decision(TRUE, "", "Valid progression from Assess to Decide realm",
                  null)
  ELSE IF targetRealmId = REALM_DO_ID
    THEN Decision(TRUE, itemType,
           "moved directly from Assess to Do (skipping Decide) - ensure context and due date are set",
           null)
  ELSE IF targetRealmId = REALM_ASSESS_ID
    THEN Decision(FALSE, itemType, "is already in Assess realm", null)
  ELSE Decision(FALSE, "", "Invalid target realm ID", null)

\* validateFromDecide with a due date equal to now counted as past
validateFromDecide_PastInclusive(item, targetRealmId, itemType, t) ==
  IF targetRealmId = REALM_DO_ID
    THEN IF item.contextRecordName = null
           THEN Decision(FALSE, itemType,
                  "must have a context assigned before moving to Do realm",
                  null)
         ELSE IF item.endDate = null
           THEN Decision(FALSE, itemType,
                  "must have a due date set before moving to Do realm", null)
         ELSE IF DateOf(item.endDate) <= t
           THEN Decision(FALSE, itemType,
                  "has a past due date (${date}) - update due date or move back to Assess",
                  item.endDate)
         ELSE Decision(TRUE, itemType,
                  "ready for Do realm - context and future due date set",
                  null)
  ELSE IF targetRealmId = REALM_ASSESS_ID
    THEN Decision(TRUE, itemType,
           "moved back to Assess realm for re-evaluation - context and due date will be cleared",
           null)
  ELSE IF targetRealmId = REALM_DECIDE_ID
    THEN Decision(FALSE, itemType, "is already in Decide realm", null)
  ELSE Decision(FALSE, "", "Invalid target realm ID", null)

\* validateFromDecide with the due-date check ahead of the context check
validateFromDecide_DueDateFirst(item, targetRealmId, itemType, t) ==
  IF targetRealmId = REALM_DO_ID
    THEN IF item.endDate = null
           THEN Decision(FALSE, itemType,
                  "must have a due date set before moving to Do realm", null)
         ELSE IF item.contextRecordName = null
           THEN Decision(FALSE, itemType,
                  "must have a context assigned before moving to Do realm",
                  null)
         ELSE IF DateOf(item.endDate) < t
           THEN Decision(FALSE, itemType,
                  "has a past due date (${date}) - update due date or move back to Assess",
                  item.endDate)
         ELSE Decision(TRUE, itemType,
                  "ready for Do realm - context and future due date set",
                  null)
  ELSE IF targetRealmId = REALM_ASSESS_ID
    THEN Decision(TRUE, itemType,
           "moved back to Assess realm for re-evaluation - context and due date will be cleared",
           null)
  ELSE IF targetRealmId = REALM_DECIDE_ID
    THEN Decision(FALSE, itemType, "is already in Decide realm", null)
  ELSE Decision(FALSE, "", "Invalid target realm ID", null)

validateFromDecide(item, targetRealmId, itemType, t) ==
  IF targetRealmId = REALM_DO_ID
    THEN IF item.contextRecordName = null
           THEN Decision(FALSE, itemType,
                  "must have a context assigned before moving to Do realm",
                  null)
         ELSE IF item.endDate = null
           THEN Decision(FALSE, itemType,
                  "must have a due date set before moving to Do realm", null)
         ELSE IF DateOf(item.endDate) < t
           THEN Decision(FALSE, itemType,
                  "has a past due date (${date}) - update due date or move back to Assess",
                  item.endDate)
         ELSE Decision(TRUE, itemType,
                  "ready for Do realm - context and future due date set",
                  null)
  ELSE IF targetRealmId = REALM_ASSESS_ID
    THEN Decision(TRUE, itemType,
           "moved back to Assess realm for re-evaluation - context and due date will be cleared",
           null)
  ELSE IF targetRealmId = REALM_DECIDE_ID
    THEN Decision(FALSE, itemType, "is already in Decide realm", null)
  ELSE Decision(FALSE, "", "Invalid target realm ID", null)

\* validateFromDo with a move to the current realm let through
validateFromDo_SameRealmAllowed(item, targetRealmId, itemType) ==
  IF targetRealmId = REALM_ASSESS_ID
    THEN Decision(TRUE, itemType,
           "moved back to Assess realm - will be cleared of context and due date for fresh evaluation",
           null)
  ELSE IF targetRealmId = REALM_DECIDE_ID
    THEN Decision(TRUE, itemType,
           "moved back to Decide realm for rescheduling or context adjustment",
           null)
  ELSE IF targetRealmId = REALM_DO_ID
    THEN Decision(TRUE, itemType, "is already in Do realm", null)
  ELSE Decision(FALSE, "", "Invalid target realm ID", null)

\* validateFromDo with the move back to Decide held to a context
validateFromDo_DecideNeedsContext(item, targetRealmId, itemType) ==
  IF targetRealmId = REALM_ASSESS_ID
    THEN Decision(TRUE, itemType,
           "moved back to Assess realm - will be cleared of context and due date for fresh evaluation",
           null)
  ELSE IF targetRealmId = REALM_DECIDE_ID
    THEN Decision(item.contextRecordName # null, itemType,
           "moved back to Decide realm for rescheduling or context adjustment",
           null)
  ELSE IF targetRealmId = REALM_DO_ID
    THEN Decision(FALSE, itemType, "is already in Do realm", null)
  ELSE Decision(FALSE, "", "Invalid target realm ID", null)

validateFromDo(item, targetRealmId, itemType) ==
  IF targetRealmId = REALM_ASSESS_ID
    THEN Decision(TRUE, itemType,
           "moved back to Assess realm - will be cleared of context and due date for fresh evaluation",
           null)
  ELSE IF targetRealmId = REALM_DECIDE_ID
    THEN Decision(TRUE, itemType,
           "moved back to Decide realm for rescheduling or context adjustment",
           null)
  ELSE IF targetRealmId = REALM_DO_ID
    THEN Decision(FALSE, itemType, "is already in Do realm", null)
  ELSE Decision(FALSE, "", "Invalid target realm ID", null)

\* the switch of validateRealmTransition on the current realm, for an item
\* already fetched and a target already mapped to its id, at instant t
validateSwitch(currentItem, targetRealmId, itemType, t) ==
  IF currentItem.realmId = REALM_ASSESS_ID
    THEN validateFromAssess(currentItem, targetRealmId, itemType)
  ELSE IF currentItem.realmId = REALM_DECIDE_ID
    THEN validateFromDecide(currentItem, targetRealmId, itemType, t)
  ELSE IF currentItem.realmId = REALM_DO_ID
    THEN validateFromDo(currentItem, targetRealmId, itemType)
  ELSE Decision(FALSE, "", "Invalid current realm ID", null)

\* validateRealmTransition: fetch, map the target, switch on the current
\* realm.  threw = TRUE when realmStringToId throws.
validateRealmTransition(itemRecordName, itemType, targetRealm, t) ==
  LET currentItem == mockFetchItem(itemRecordName, itemType, t)
      target == realmStringToId(targetRealm)
  IN  IF target.threw
        THEN [threw |-> TRUE,
              result |-> Decision(FALSE, "", "Invalid realm string", null)]
        ELSE [threw |-> FALSE,
              result |-> validateSwitch(currentItem, target.id, itemType, t)]

(* ------------------------------ realm moves ---------------------------- *)

ClearedNote == ". Context and due date cleared for fresh evaluation"

ReadyNote == ". Ready for context assignment and due date setting"

\* the outcome of a handler: the error code ("OK" when it returns) and the
\* text of the response or of the error
Outcome(code, reply) == [code |-> code, reply |-> reply]

\* moveItemToRealm announcing the clean-up for every backward move
moveItemToRealm_ClearsOnDecide(itemRecordName, itemType, targetRealmStr) ==
  LET targetRealmId == realmStringToId(targetRealmStr).id
  IN  Outcome("OK",
        Msg(itemType, itemRecordName, "moved to realm", null, targetRealmId,
            IF targetRealmId # REALM_DO_ID THEN ClearedNote ELSE ""))

\* moveItemToRealm: builds the update message; it writes nothing
moveItemToRealm(itemRecordName, itemType, targetRealmStr) ==
  LET targetRealmId == realmStringToId(targetRealmStr).id
  IN  Outcome("OK",
        Msg(itemType, itemRecordName, "moved to realm", null, targetRealmId,
            IF targetRealmId = REALM_ASSESS_ID THEN ClearedNote
            ELSE IF targetRealmId = REALM_DECIDE_ID
                    /\ targetRealmStr # "decide" THEN ReadyNote
            ELSE ""))

\* moveTaskToRealm moving without consulting the validator's verdict
moveTaskToRealm_IgnoresVerdict(taskRecordName, targetRealm, t) ==
  LET validation == validateRealmTransition(taskRecordName, "Task",
                                            targetRealm, t)
  IN  IF validation.threw
        THEN Outcome("InvalidParams", validation.result.reason)
        ELSE moveItemToRealm(taskRecordName, "Task", targetRealm)

moveTaskToRealm(taskRecordName, targetRealm, t) ==
  LET validation == validateRealmTransition(taskRecordName, "Task",
                                            targetRealm, t)
  IN  IF validation.threw \/ ~validation.result.valid
        THEN Outcome("InvalidParams", validation.result.reason)
        ELSE moveItemToRealm(taskRecordName, "Task", targetRealm)

moveProjectToRealm(projectRecordName, targetRealm, t) ==
  LET validation == validateRealmTransition(projectRecordName, "Project",
                                            targetRealm, t)
  IN  IF validation.threw \/ ~validation.result.valid
        THEN Outcome("InvalidParams", validation.result.reason)
        ELSE moveItemToRealm(projectRecordName, "Project", targetRealm)

(* ------------------------------ completion ----------------------------- *)

MustBeInDoText ==
  "must be in Do realm to mark as done. Current realm: ${realmId}. Move to Do realm first."

markTaskAsDone(taskRecordName, t) ==
  LET item == mockFetchItem(taskRecordName, "Task", t)
  IN  IF item.realmId # REALM_DO_ID
        THEN Outcome("InvalidParams",
               Msg("Task", taskRecordName, MustBeInDoText, null,
                   item.realmId, ""))
        ELSE Outcome("OK",
               Msg("Task", taskRecordName,
                   "marked as done. Moved to Done collection (realm 4).",
                   toISOString(t), 4, ""))

\* markProjectAsDone refusing only the items still in Assess
markProjectAsDone_DecideAccepted(projectRecordName, t) ==
  LET item == mockFetchItem(projectRecordName, "Project", t)
  IN  IF item.realmId = REALM_ASSESS_ID
        THEN Outcome("InvalidParams",
               Msg("Project", projectRecordName, MustBeInDoText, null,
                   item.realmId, ""))
        ELSE Outcome("OK",
               Msg("Project", projectRecordName,
                   "and all subtasks marked as done. Moved to Done collection (realm 4).",
                   toISOString(t), 4, ""))

markProjectAsDone(projectRecordName, t) ==
  LET item == mockFetchItem(projectRecordName, "Project", t)
  IN  IF item.realmId # REALM_DO_ID
        THEN Outcome("InvalidParams",
               Msg("Project", projectRecordName, MustBeInDoText, null,
                   item.realmId, ""))
        ELSE Outcome("OK",
               Msg("Project", projectRecordName,
                   "and all subtasks marked as done. Moved to Done collection (realm 4).",
                   toISOString(t), 4, ""))

(* ------------------------------ content edits -------------------------- *)

\* editTask: no fetch and no realm check; taskName and taskPriority are
\* optional and are reported when truthy
editTask(taskRecordName, taskName, taskPriority) ==
  Outcome("OK",
    Msg("Task", taskRecordName, "updated.", null, 0,
        IF taskName # null /\ taskPriority # null
          THEN " Name set. Priority set."
        ELSE IF taskName # null THEN " Name set."
        ELSE IF taskPriority # null THEN " Priority set."
        ELSE ""))

\* editProject: no fetch and no realm check
editProject(projectRecordName, projectName) ==
  Outcome("OK",
    Msg("Project", projectRecordName, "updated with name: ${projectName}",
        null, 0, ""))

\* editIdea: no fetch and no realm check
editIdea(ideaRecordName, ideaName) ==
  Outcome("OK",
    Msg("Idea", ideaRecordName, "updated with name: ${ideaName}", null, 0,
        ""))

(* ------------------------------ Decide assignments --------------------- *)

\* a date argument: <<t>> is a string that parses to the instant t, and
\* NotADate a string that new Date() cannot parse
NotADate == <<0, 0>>

\* new Date(string): nan = TRUE is the Invalid Date
DateParse(str) ==
  IF Len(str) = 1 THEN [nan |-> FALSE, ms |-> str[1]]
  ELSE [nan |-> TRUE, ms |-> 0]

\* date <= new Date(): every comparison with the Invalid Date is false
DateLeq(date, t) == ~date.nan /\ date.ms <= t

MustBeInDecideForContextText ==
  "must be in Decide realm to assign context. Current realm: ${realmId}"

MustBeInDecideForDueDateText ==
  "must be in Decide realm to set due date. Current realm: ${realmId}"

DueDateNotFutureText == "Due date must be in the future. Provided: ${date}"

\* assignContextToItem refusing only the items still in Assess
assignContextToItem_DoAccepted(itemRecordName, itemType, contextRecordName, t) ==
  LET item == mockFetchItem(itemRecordName, itemType, t)
  IN  IF item.realmId < REALM_DECIDE_ID
        THEN Outcome("InvalidParams",
               Msg(itemType, itemRecordName, MustBeInDecideForContextText,
                   null, item.realmId, ""))
        ELSE Outcome("OK",
               Msg(itemType, itemRecordName,
                   "Context ${contextRecordName} assigned in Decide realm.",
                   null, 0, ""))

assignContextToItem(itemRecordName, itemType, contextRecordName, t) ==
  LET item == mockFetchItem(itemRecordName, itemType, t)
  IN  IF item.realmId # REALM_DECIDE_ID
        THEN Outcome("InvalidParams",
               Msg(itemType, itemRecordName, MustBeInDecideForContextText,
                   null, item.realmId, ""))
        ELSE Outcome("OK",
               Msg(itemType, itemRecordName,
                   "Context ${contextRecordName} assigned in Decide realm.",
                   null, 0, ""))

\* setDueDateForItem: no fetch and no realm check
setDueDateForItem(itemRecordName, itemType, endDateISO) ==
  Outcome("OK",
    Msg(itemType, itemRecordName,
        "Due date (endDate) ${endDateISO} set in Decide realm.", endDateISO,
        0, ""))

\* setAlertForTask: no fetch and no realm check
setAlertForTask(taskRecordName, alertDateTimeISO) ==
  Outcome("OK",
    Msg("Task", taskRecordName,
        "Alert at ${alertDateTimeISO} set in Decide realm.",
        alertDateTimeISO, 0, ""))

setProjectInterval(projectRecordName, startDate, endDate) ==
  setDueDateForItem(projectRecordName, "Project", endDate)

setTaskDueDate(taskRecordName, endDate, t) ==
  LET item == mockFetchItem(taskRecordName, "Task", t)
  IN  IF item.realmId # REALM_DECIDE_ID
        THEN Outcome("InvalidParams",
               Msg("Task", taskRecordName, MustBeInDecideForDueDateText,
                   null, item.realmId, ""))
      ELSE IF DateLeq(DateParse(endDate), t)
        THEN Outcome("InvalidParams",
               Msg("", "", DueDateNotFutureText, endDate, 0, ""))
      ELSE setDueDateForItem(taskRecordName, "Task", endDate)

setTaskAlert(taskRecordName, alertDateTime) ==
  setAlertForTask(taskRecordName, alertDateTime)

(* ------------------------------ creation ------------------------------- *)

\* createTask: the record it builds at instant t with the uuid drawn for the
\* record name.  startDateISO, projectRecordName and collectionRecordName are
\* optional; taskPriority defaults to 3.
\* createTask putting a task created inside a project in the project's stage
createTask_JoinsProject(taskName, startDateISO, taskPriority, projectRecordName, collectionRecordName, t, recordName) ==
  [recordType |-> "Task", recordName |-> recordName,
   realmId |-> IF projectRecordName = null THEN REALM_ASSESS_ID
               ELSE mockFetchItem(projectRecordName[1], "Project", t).realmId,
   context |-> IF projectRecordName = null THEN null
               ELSE mockFetchItem(projectRecordName[1], "Project",
                                  t).contextRecordName,
   endDate |-> null,
   startDate |-> IF startDateISO # null THEN startDateISO ELSE toISOString(t),
   taskPriority |-> IF taskPriority = null THEN 3 ELSE taskPriority[1],
   project |-> projectRecordName, collection |-> collectionRecordName]

createTask(taskName, startDateISO, taskPriority, projectRecordName, collectionRecordName, t, recordName) ==
  [recordType |-> "Task", recordName |-> recordName,
   realmId |-> REALM_ASSESS_ID, context |-> null, endDate |-> null,
   startDate |-> IF startDateISO # null THEN startDateISO ELSE toISOString(t),
   taskPriority |-> IF taskPriority = null THEN 3 ELSE taskPriority[1],
   project |-> projectRecordName, collection |-> collectionRecordName]

createProject(projectName, startDateISO, collectionRecordName, t, recordName) ==
  [recordType |-> "Projects", recordName |-> recordName,
   realmId |-> REALM_ASSESS_ID, context |-> null, endDate |-> null,
   startDate |-> IF startDateISO # null THEN startDateISO ELSE toISOString(t),
   taskPriority |-> 0, project |-> null,
   collection |-> collectionRecordName]

createIdea(ideaName, collectionRecordName, t, recordName) ==
  [recordType |-> "Ideas", recordName |-> recordName,
   realmId |-> REALM_ASSESS_ID, context |-> null, endDate |-> null,
   startDate |-> null, taskPriority |-> 0, project |-> null,
   collection |-> collectionRecordName]

CreatedText == "created in Assess realm with ID ${recordName}."

CapturedText == "captured in Assess realm with ID ${ideaRecordName}."

(* ------------------------------ project membership --------------------- *)

\* addTaskToProject: the acknowledgement; it writes nothing
addTaskToProject(taskRecordName, projectRecordName) ==
  Outcome("OK",
    Msg("Task", taskRecordName, "added to project ${projectRecordName}",
        null, 0, ""))

\* removeTaskFromProject: the acknowledgement; it writes nothing
removeTaskFromProject(taskRecordName, projectRecordName) ==
  Outcome("OK",
    Msg("Task", taskRecordName, "removed from project ${projectRecordName}",
        null, 0, ""))

(* ------------------------------ the CloudKit service ------------------- *)

\* a record of the CloudKit database: the fields the queries and the query
\* handlers read.  contextRecordName is the field the service's task queries
\* name, context the reference the handlers read; endDate and lastModified
\* are timestamps in milliseconds, taskPriority is an option
Record(recordName, recordType, realmId, contextRecordName, context, endDate, lastModified) ==
  [recordName |-> recordName, recordType |-> recordType, realmId |-> realmId,
   contextRecordName |-> contextRecordName, context |-> context,
   endDate |-> endDate, lastModified |-> lastModified,
   taskPriority |-> <<>>]

\* a filter of a query; fieldValue is an option
Filter(fieldName, fieldValue, comparator) ==
  [fieldName |-> fieldName, fieldValue |-> fieldValue,
   comparator |-> comparator]

\* the value of a record's field, as an option
FieldOf(rec, fieldName) ==
  CASE fieldName = "realmId" -> <<rec.realmId>>
    [] fieldName = "endDate" -> rec.endDate
    [] fieldName = "contextRecordName" -> rec.contextRecordName

\* the database's reading of one filter: an ordering comparator matches no
\* record whose field is missing
Matches(rec, filter) ==
  LET field == FieldOf(rec, filter.fieldName)
  IN  CASE filter.comparator = "EQUALS" -> field = filter.fieldValue
        [] filter.comparator = "LESS_THAN" ->
             field # null /\ field[1] < filter.fieldValue[1]
        [] filter.comparator = "GREATER_THAN" ->
             field # null /\ field[1] > filter.fieldValue[1]
        [] filter.comparator = "LESS_THAN_OR_EQUALS" ->
             field # null /\ field[1] <= filter.fieldValue[1]
        [] filter.comparator = "GREATER_THAN_OR_EQUALS" ->
             field # null /\ field[1] >= filter.fieldValue[1]

MatchesAll(rec, filterBy) ==
  \A i \in 1 .. Len(filterBy) : Matches(rec, filterBy[i])

\* a record without a priority sorts as priority 0
SortKey(rec, fieldName) ==
  IF fieldName = "endDate" THEN rec.endDate[1]
  ELSE IF fieldName = "taskPriority"
    THEN IF rec.taskPriority = <<>> THEN 0 ELSE rec.taskPriority[1]
  ELSE rec.lastModified

\* rec comes before other under the sort descriptor
Before(rec, other, sort) ==
  IF sort.ascending
    THEN SortKey(rec, sort.fieldName) < SortKey(other, sort.fieldName)
    ELSE SortKey(rec, sort.fieldName) > SortKey(other, sort.fieldName)

RECURSIVE InsertSorted(_, _, _)
InsertSorted(rec, sorted, sort) ==
  IF sorted = <<>> THEN <<rec>>
  ELSE IF Before(rec, Head(sorted), sort) THEN <<rec>> \o sorted
  ELSE <<Head(sorted)>> \o InsertSorted(rec, Tail(sorted), sort)

\* the database's ordering of a result: by the sort descriptor, records with
\* equal keys in the order the database holds them
RECURSIVE Sorted(_, _)
Sorted(records, sort) ==
  IF records = <<>> THEN <<>>
  ELSE InsertSorted(records[Len(records)],
                    Sorted(SubSeq(records, 1, Len(records) - 1), sort), sort)

\* database.performQuery: the records of the type that match every filter,
\* ordered by sortBy (an option) and otherwise as the database holds them
performQuery(db, recordType, filterBy, sortBy) ==
  LET matching ==
        SelectSeq(db, LAMBDA rec : /\ rec.recordType = recordType
                                   /\ MatchesAll(rec, filterBy))
  IN  IF sortBy = null THEN matching ELSE Sorted(matching, sortBy[1])

\* queryRecords: threw models the Error it throws when the service is not
\* authenticated or the database answers with errors
queryRecords(db, ok, recordType, filterBy, sortBy) ==
  IF ok THEN [threw |-> FALSE,
              records |-> performQuery(db, recordType, filterBy, sortBy)]
  ELSE [threw |-> TRUE, records |-> <<>>]

\* the records of both lists, each record name once, in the order of first
\* appearance (the Map the service collects them in)
RECURSIVE Unique(_)
Unique(records) ==
  IF records = <<>> THEN <<>>
  ELSE LET rest == Unique(SubSeq(records, 1, Len(records) - 1))
           rec == records[Len(records)]
       IN  IF \E i \in 1 .. Len(rest) : rest[i].recordName = rec.recordName
             THEN rest
             ELSE Append(rest, rec)

getTasksInDecideUndecided(db, ok) ==
  LET noContext ==
        queryRecords(db, ok, "Task",
          <<Filter("realmId", <<REALM_DECIDE_ID>>, "EQUALS"),
            Filter("contextRecordName", null, "EQUALS")>>, null)
      noDueDate ==
        queryRecords(db, ok, "Task",
          <<Filter("realmId", <<REALM_DECIDE_ID>>, "EQUALS"),
            Filter("endDate", null, "EQUALS")>>, null)
  IN  [threw |-> noContext.threw \/ noDueDate.threw,
       records |-> Unique(noContext.records \o noDueDate.records)]

getTasksInDecideStalled(db, ok, t) ==
  queryRecords(db, ok, "Task",
    <<Filter("realmId", <<REALM_DECIDE_ID>>, "EQUALS"),
      Filter("endDate", <<t>>, "LESS_THAN")>>,
    <<[fieldName |-> "endDate", ascending |-> TRUE]>>)

\* getTasksInDecideReady without the client-side context filter
getTasksInDecideReady_AnyContext(db, ok, t) ==
  queryRecords(db, ok, "Task",
    <<Filter("realmId", <<REALM_DECIDE_ID>>, "EQUALS"),
      Filter("endDate", <<t>>, "GREATER_THAN")>>, null)

getTasksInDecideReady(db, ok, t) ==
  LET tasksWithFutureDates ==
        queryRecords(db, ok, "Task",
          <<Filter("realmId", <<REALM_DECIDE_ID>>, "EQUALS"),
            Filter("endDate", <<t>>, "GREATER_THAN")>>, null)
  IN  [threw |-> tasksWithFutureDates.threw,
       records |-> SelectSeq(tasksWithFutureDates.records,
                             LAMBDA task : task.contextRecordName # null)]

\* setHours(0, 0, 0, 0) and setHours(23, 59, 59, 999) of the day of instant
\* t, the server's time zone taken without offset
startOfDay(t) == t - (t % DayMs)

endOfDay(t) == startOfDay(t) + DayMs - 1

\* the Do realm's tasks with startOfDay <= endDate <= endOfDay of the day
\* of instant day
getTasksInDoOn(db, ok, day, sortBy) ==
  queryRecords(db, ok, "Task",
    <<Filter("realmId", <<REALM_DO_ID>>, "EQUALS"),
      Filter("endDate", <<startOfDay(day)>>, "GREATER_THAN_OR_EQUALS"),
      Filter("endDate", <<endOfDay(day)>>, "LESS_THAN_OR_EQUALS")>>, sortBy)

getTasksInDoToday(db, ok, t) ==
  getTasksInDoOn(db, ok, t,
                 <<[fieldName |-> "taskPriority", ascending |-> TRUE]>>)

getTasksInDoTomorrow(db, ok, t) == getTasksInDoOn(db, ok, t + DayMs, null)

\* twoDaysFromNow and sevenDaysFromNow keep the time of day of instant t
getTasksInDoSoon(db, ok, t) ==
  queryRecords(db, ok, "Task",
    <<Filter("realmId", <<REALM_DO_ID>>, "EQUALS"),
      Filter("endDate", <<t + 2 * DayMs>>, "GREATER_THAN_OR_EQUALS"),
      Filter("endDate", <<t + 7 * DayMs>>, "LESS_THAN_OR_EQUALS")>>,
    <<[fieldName |-> "endDate", ascending |-> TRUE]>>)

getProjectsByRealm(db, ok, realmId) ==
  queryRecords(db, ok, "Projects",
    <<Filter("realmId", <<realmId>>, "EQUALS")>>,
    <<[fieldName |-> "lastModified", ascending |-> FALSE]>>)

\* the filters the query handlers apply to the projects in Decide
stalledProjects(projects, t) ==
  SelectSeq(projects,
            LAMBDA project : project.endDate # null /\ project.endDate[1] < t)

undecidedProjects(projects) ==
  SelectSeq(projects,
            LAMBDA project : project.context = null \/ project.endDate = null)

readyProjects(projects, t) ==
  SelectSeq(projects,
            LAMBDA project : /\ project.context # null
                             /\ project.endDate # null
                             /\ project.endDate[1] > t)

\* what database.saveRecords answers: it throws, or it returns the records
\* it saved, with hasErrors set when some record was refused
SaveResponse(threw, hasErrors, records) ==
  [threw |-> threw, hasErrors |-> hasErrors, records |-> records]

SaveFailedText == "CloudKit save failed: ${reason} (${serverErrorCode})"

\* saveRecord: threw models the Error thrown or rethrown
saveRecord(record, response) ==
  IF response.threw \/ response.hasErrors
    THEN [threw |-> TRUE, records |-> <<>>]
    ELSE [threw |-> FALSE, records |-> SubSeq(response.records, 1, 1)]

\* saveRecords: errors of single records are logged only
saveRecords(records, response) ==
  IF response.threw
    THEN [threw |-> TRUE, records |-> <<>>]
    ELSE [threw |-> FALSE, records |-> response.records]

(* ------------------------------ user ids and permissions --------------- *)

\* the user record names of the users, their characters and the character
\* codes (charCodeAt)
UserRecordNames == {"A", "Hl", "Aa", "BB"}

NameChars(userRecordName) ==
  CASE userRecordName = "A" -> <<"A">>
    [] userRecordName = "Hl" -> <<"H", "l">>
    [] userRecordName = "Aa" -> <<"A", "a">>
    [] userRecordName = "BB" -> <<"B", "B">>

charCodeAt(char) ==
  CASE char = "A" -> 65
    [] char = "B" -> 66
    [] char = "H" -> 72
    [] char = "a" -> 97
    [] char = "l" -> 108

\* the digits of Number.prototype.toString(36)
Digits36 ==
  <<"0", "1", "2", "3", "4", "5", "6", "7", "8", "9", "a", "b", "c", "d",
    "e", "f", "g", "h", "i", "j", "k", "l", "m", "n", "o", "p", "q", "r",
    "s", "t", "u", "v", "w", "x", "y", "z">>

RECURSIVE toString36(_)
toString36(n) ==
  IF n < Len(Digits36) THEN <<Digits36[n + 1]>>
  ELSE Append(toString36(n \div Len(Digits36)),
              Digits36[(n % Len(Digits36)) + 1])

\* the hash of generateUserId over the first k characters; for record names
\* as short as these it stays far inside 32 bits, so the conversion to a
\* 32-bit integer changes nothing
RECURSIVE HashOf(_, _)
HashOf(chars, k) ==
  IF k = 0 THEN 0
  ELSE LET hash == HashOf(chars, k - 1)
       IN  ((hash * 32) - hash) + charCodeAt(chars[k])

Abs(n) == IF n < 0 THEN -n ELSE n

\* generateUserId, as the characters of the id
generateUserId(userRecordName) ==
  <<"u", "s", "e", "r", "_">>
    \o toString36(Abs(HashOf(NameChars(userRecordName),
                             Len(NameChars(userRecordName)))))

\* String.prototype.includes on character sequences
Contains(chars, sub) ==
  \E i \in 1 .. (Len(chars) - Len(sub) + 1) :
    SubSeq(chars, i, i + Len(sub) - 1) = sub

\* checkPermissions for a session of the user id; resourceId is an option
checkPermissions(userId, resourceId) ==
  IF resourceId # null /\ ~Contains(resourceId[1], userId)
    THEN FALSE
    ELSE TRUE

(* ------------------------------ the server ----------------------------- *)

NoItem == Item("", "", 0, null, null)

NoDecision == Decision(FALSE, "", "", null)

\* the record a create operation builds; absent fields are null
NoRecord ==
  [recordType |-> "", recordName |-> "", realmId |-> 0, context |-> null,
   endDate |-> null, startDate |-> null, taskPriority |-> 0,
   project |-> null, collection |-> null]

\* the record of a tool call: its arguments, the instant it ran at, the item
\* the handler fetched, the validator's decision (for a move) and the outcome;
\* arg is the date or context argument and made the record built, if any;
\* for a query, items are the records listed, source the implementation
\* that produced them and fault whether the database operation failed;
\* for a save, given are the records to save and items the records returned
Call(tool, name, itemType, target, targetId, at, pre, decision, outcome) ==
  [tool |-> tool, name |-> name, itemType |-> itemType, target |-> target,
   targetId |-> targetId, at |-> at, pre |-> pre, decision |-> decision,
   code |-> outcome.code, reply |-> outcome.reply, arg |-> null,
   made |-> NoRecord, items |-> <<>>, source |-> "", fault |-> FALSE,
   given |-> <<>>]

NotAuthenticated ==
  Outcome("InvalidRequest",
    Msg("", "", "User must be authenticated. Call authenticate_user first.",
        null, 0, ""))

Init ==
  /\ now = T0
  /\ userToken = null
  /\ last = Call("none", "", "", "", 0, T0, NoItem, NoDecision,
                 Outcome("OK", Msg("", "", "", null, 0, "")))
  /\ projectTasks = {}
  /\ productionMode = FALSE
  /\ authenticated = FALSE
  /\ sessions = {}
  /\ currentSession = null
  /\ store = <<>>
  /\ recent = <<>>
  /\ requests = <<>>
  /\ rateLimitMap = <<>>
  /\ passes = <<>>
  /\ auditLog = <<>>
  /\ lapsed = {}
  /\ invalidated = {}
  /\ starting = FALSE

InWindow(timestamp, t) == (t - timestamp) < RateWindow

Tick ==
  /\ now < T0 + MaxTicks
  /\ now' = now + 1
  /\ recent' = <<>>
  /\ passes' = SelectSeq(passes, LAMBDA timestamp : InWindow(timestamp, now'))
  /\ lapsed' = lapsed \cup {session.sessionId : session \in
                   {expired \in sessions : now' > expired.expiresAt}}
  /\ UNCHANGED <<userToken, last, projectTasks, productionMode,
                 authenticated, sessions, currentSession, store, requests,
                 rateLimitMap, auditLog, invalidated, starting>>

WebAuthTokens == {"token1", ""}

\* the webAuthToken argument: null when it is missing or not a string
WebAuthTokenArgs == {null} \cup {<<token>> : token \in WebAuthTokens}

\* the securityConfig.sessionTimeout of the deployment, in milliseconds
SessionTimeout == 1

\* what the authentication service meets: the token is accepted by CloudKit
\* or refused by it
AuthOutcomes == {"valid", "invalid"}

MissingTokenText == "Invalid or missing webAuthToken."

MockAuthText == "Mock authentication successful."

AuthenticatedText ==
  "Successfully authenticated with iCloud as ${userRecordName}."

SignInText == "Please authenticate with your Apple ID: ${authUrl}"

AuthFailedText == "CloudKit authentication failed: ${message}"

RateLimitText == "Rate limit exceeded. Please try again later."

InvalidTokenText ==
  "Invalid or expired authentication token. Please authenticate again."

\* UserAuthService.authenticateUser builds the session: its id is made of
\* the instant of creation (and a random part, left out)
Session(t) == [sessionId |-> t, expiresAt |-> t + SessionTimeout]

(* ----------------- the authentication service -------------------------- *)

\* checkRateLimit on the instants kept under the key, at instant t: whether
\* the attempt passes, and the instants kept afterwards
checkRateLimit_CountsAfter(timestamps, t) ==
  LET validRequests == SelectSeq(timestamps,
                         LAMBDA timestamp : (t - timestamp) < RateWindow)
  IN  IF Len(validRequests) > MaxRequests
        THEN [ok |-> FALSE, requests |-> timestamps]
        ELSE [ok |-> TRUE, requests |-> Append(validRequests, t)]

checkRateLimit(timestamps, t) ==
  LET validRequests == SelectSeq(timestamps,
                         LAMBDA timestamp : (t - timestamp) < RateWindow)
  IN  IF Len(validRequests) >= MaxRequests
        THEN [ok |-> FALSE, requests |-> timestamps]
        ELSE [ok |-> TRUE, requests |-> Append(validRequests, t)]

\* sessions.set: the map holds one session per id
Put(map, session) ==
  {other \in map : other.sessionId # session.sessionId} \cup {session}

\* validateSession at instant t: the session returned (null when the id is
\* unknown or the session has expired) and the map afterwards
validateSession_ExpiredAtExpiry(map, sessionId, t) ==
  LET found == {session \in map : session.sessionId = sessionId}
      live == {session \in found : ~(t >= session.expiresAt)}
  IN  [session |-> IF live = {} THEN null ELSE <<CHOOSE session \in live : TRUE>>,
       sessions |-> map \ (found \ live)]

validateSession(map, sessionId, t) ==
  LET found == {session \in map : session.sessionId = sessionId}
      live == {session \in found : ~(t > session.expiresAt)}
  IN  [session |-> IF live = {} THEN null ELSE <<CHOOSE session \in live : TRUE>>,
       sessions |-> map \ (found \ live)]

\* refreshSession at instant t: whether the session was found, and the map
refreshSession(map, sessionId, t) ==
  LET found == {session \in map : session.sessionId = sessionId}
  IN  [success |-> found # {},
       sessions |-> IF found = {} THEN map
                    ELSE Put(map, [sessionId |-> sessionId,
                                   expiresAt |-> t + SessionTimeout])]

revokeSession(map, sessionId) ==
  {session \in map : session.sessionId # sessionId}

getActiveSessions(map, t) == {session \in map : session.expiresAt > t}

\* the sessions the periodic clean-up deletes at instant t
cleanedUp_Unexpired(map, t) == {session \in map : session.expiresAt > t}

cleanedUp(map, t) == {session \in map : session.expiresAt <= t}

\* logAudit: the entry is appended and the last AuditLimit entries kept
AuditEntry(t, operation, success) ==
  [timestamp |-> t, operation |-> operation, success |-> success]

logAudit_KeepsFirst(log, entry) ==
  LET pushed == Append(log, entry)
  IN  IF Len(pushed) > AuditLimit
        THEN SubSeq(pushed, 1, AuditLimit)
        ELSE pushed

logAudit(log, entry) ==
  LET pushed == Append(log, entry)
  IN  IF Len(pushed) > AuditLimit
        THEN SubSeq(pushed, Len(pushed) - AuditLimit + 1, Len(pushed))
        ELSE pushed

AuthCall(outcome) ==
  Call("authenticate_user", "", "", "", 0, now, NoItem, NoDecision, outcome)

\* authenticate_user: the handler's argument check, then authenticateUser;
\* in production mode the authentication service decides, otherwise any
\* string is accepted
AuthenticateUser ==
  \E webAuthToken \in WebAuthTokenArgs, met \in AuthOutcomes :
    /\ recent' = <<>>
    /\ UNCHANGED <<now, projectTasks, productionMode, store, requests,
                   auditLog, lapsed, invalidated, starting>>
    /\ IF webAuthToken = null
         THEN /\ last' = AuthCall(Outcome("InvalidRequest",
                           Msg("", "", MissingTokenText, null, 0, "")))
              /\ UNCHANGED <<userToken, authenticated, sessions,
                             currentSession, rateLimitMap, passes>>
       ELSE IF ~productionMode
         THEN /\ userToken' = webAuthToken
              /\ last' = AuthCall(Outcome("OK",
                           Msg("", "", MockAuthText, null, 0, "")))
              /\ UNCHANGED <<authenticated, sessions, currentSession,
                             rateLimitMap, passes>>
       ELSE IF ~checkRateLimit(rateLimitMap, now).ok
         THEN /\ last' = AuthCall(Outcome("InvalidParams",
                           Msg("", "", AuthFailedText, null, 0,
                               RateLimitText)))
              /\ UNCHANGED <<userToken, authenticated, sessions,
                             currentSession, rateLimitMap, passes>>
       ELSE /\ rateLimitMap' = checkRateLimit(rateLimitMap, now).requests
            /\ passes' = Append(passes, now)
            /\ IF webAuthToken[1] = ""
                 THEN /\ last' = AuthCall(Outcome("OK",
                                   Msg("", "", SignInText, null, 0, "")))
                      /\ UNCHANGED <<userToken, authenticated, sessions,
                                     currentSession>>
               ELSE IF met = "invalid"
                 THEN /\ authenticated' = FALSE
                      /\ last' = AuthCall(Outcome("InvalidParams",
                                   Msg("", "", AuthFailedText, null, 0,
                                       InvalidTokenText)))
                      /\ UNCHANGED <<userToken, sessions, currentSession>>
                 ELSE /\ authenticated' = TRUE
                      /\ sessions' = Put(sessions, Session(now))
                      /\ currentSession' = <<Session(now).sessionId>>
                      /\ userToken' = webAuthToken
                      /\ last' = AuthCall(Outcome("OK",
                                   Msg("", "", AuthenticatedText,
                                       <<Session(now).expiresAt>>, 0, "")))

\* the tools that move a task, with the target realm each passes
\* ("" for moveToRealm, which passes the caller's realmId argument)
MoveTaskTools ==
  {<<"decide_move_task_to_do", "do">>,
   <<"decide_move_task_to_assess_from_decide", "assess">>}

MoveProjectTools ==
  {<<"decide_move_project_to_do", "do">>,
   <<"decide_move_project_to_assess_from_decide", "assess">>}

\* a call of one of the move tools: rejected before dispatch without a user
\* token, otherwise the outcome of moveTaskToRealm / moveProjectToRealm
MoveCall(tool, name, itemType, target, outcome) ==
  LET validation == validateRealmTransition(name, itemType, target, now)
  IN  last' = IF userToken = null
                THEN Call(tool, name, itemType, target,
                          realmStringToId(target).id, now, NoItem,
                          NoDecision, NotAuthenticated)
                ELSE Call(tool, name, itemType, target,
                          realmStringToId(target).id, now,
                          mockFetchItem(name, itemType, now),
                          IF validation.threw THEN NoDecision
                          ELSE validation.result,
                          outcome)

MoveTask ==
  \E tool \in MoveTaskTools, name \in RecordNames :
    /\ MoveCall(tool[1], name, "Task", tool[2],
                moveTaskToRealm(name, tool[2], now))
    /\ UNCHANGED <<now, userToken, projectTasks, production, requests>>

MoveProject ==
  \E tool \in MoveProjectTools, name \in RecordNames :
    /\ MoveCall(tool[1], name, "Project", tool[2],
                moveProjectToRealm(name, tool[2], now))
    /\ UNCHANGED <<now, userToken, projectTasks, production, requests>>

\* the moveToRealm tool: the target is the caller's realmId argument
MoveToRealm ==
  \E name \in RecordNames, itemType \in ItemTypes, realmId \in RealmStrings :
    /\ MoveCall("moveToRealm", name, itemType, realmId,
                IF itemType = "Task" THEN moveTaskToRealm(name, realmId, now)
                ELSE moveProjectToRealm(name, realmId, now))
    /\ UNCHANGED <<now, userToken, projectTasks, production, requests>>

DoMarkTaskAsDone ==
  \E name \in RecordNames :
    /\ last' = IF userToken = null
                  THEN Call("do_mark_task_as_done", name, "Task", "", 0, now,
                            NoItem, NoDecision, NotAuthenticated)
                  ELSE Call("do_mark_task_as_done", name, "Task", "", 0, now,
                            mockFetchItem(name, "Task", now), NoDecision,
                            markTaskAsDone(name, now))
    /\ UNCHANGED <<now, userToken, projectTasks, production, requests>>

DoMarkProjectAsDone ==
  \E name \in RecordNames :
    /\ last' = IF userToken = null
                  THEN Call("do_mark_project_as_done", name, "Project", "", 0,
                            now, NoItem, NoDecision, NotAuthenticated)
                  ELSE Call("do_mark_project_as_done", name, "Project", "", 0,
                            now, mockFetchItem(name, "Project", now),
                            NoDecision, markProjectAsDone(name, now))
    /\ UNCHANGED <<now, userToken, projectTasks, production, requests>>

\* a call of a tool other than a move: rejected before dispatch without a
\* user token; fetched is the item the handler reads (NoItem when it reads
\* none) and arg the date or context argument
\* ToolCall dispatching without looking at the user token
ToolCall_NoGate(tool, name, itemType, arg, fetched, outcome) ==
  last' = [Call(tool, name, itemType, "", 0, now, fetched, NoDecision,
                outcome) EXCEPT !.arg = arg]

ToolCall(tool, name, itemType, arg, fetched, outcome) ==
  last' = IF userToken = null
            THEN [Call(tool, name, itemType, "", 0, now, NoItem, NoDecision,
                       NotAuthenticated) EXCEPT !.arg = arg]
            ELSE [Call(tool, name, itemType, "", 0, now, fetched, NoDecision,
                       outcome) EXCEPT !.arg = arg]

\* the optional taskName and taskPriority arguments of assess_edit_task
TaskNameArgs == {null, <<"renamed">>}

TaskPriorityArgs == {null, <<5>>}

AssessEditTask ==
  \E name \in RecordNames, taskName \in TaskNameArgs,
     taskPriority \in TaskPriorityArgs :
    /\ ToolCall("assess_edit_task", name, "Task", null, NoItem,
                editTask(name, taskName, taskPriority))
    /\ UNCHANGED <<now, userToken, projectTasks, production, requests>>

AssessEditProject ==
  \E name \in RecordNames :
    /\ ToolCall("assess_edit_project", name, "Project", null, NoItem,
                editProject(name, <<"renamed">>))
    /\ UNCHANGED <<now, userToken, projectTasks, production, requests>>

IdeaNames == {"idea_789"}

AssessEditIdea ==
  \E name \in IdeaNames :
    /\ ToolCall("assess_edit_idea", name, "Idea", null, NoItem,
                editIdea(name, <<"renamed">>))
    /\ UNCHANGED <<now, userToken, projectTasks, production, requests>>

ContextNames == {"context_home"}

\* decide_assign_context: an itemType other than Task and Project is refused
DecideAssignContext ==
  \E name \in RecordNames, itemType \in ItemTypes \cup {"Idea"},
     contextRecordName \in ContextNames :
    /\ IF itemType \in ItemTypes
         THEN ToolCall("decide_assign_context", name, itemType,
                       <<contextRecordName>>,
                       mockFetchItem(name, itemType, now),
                       assignContextToItem(name, itemType, contextRecordName,
                                           now))
         ELSE ToolCall("decide_assign_context", name, itemType,
                       <<contextRecordName>>, NoItem,
                       Outcome("InvalidParams",
                         Msg("", "", "itemType must be 'Task' or 'Project'.",
                             null, 0, "")))
    /\ UNCHANGED <<now, userToken, projectTasks, production, requests>>

\* the date arguments of a call made at instant t: a string that is not a
\* date, and the instants just before, at and just after t
DateArgs(t) == {NotADate, toISOString(t - 1), toISOString(t), toISOString(t + 1)}

DecideSetTaskDueDate ==
  \E name \in RecordNames, endDate \in DateArgs(now) :
    /\ ToolCall("decide_set_task_due_date", name, "Task", endDate,
                mockFetchItem(name, "Task", now),
                setTaskDueDate(name, endDate, now))
    /\ UNCHANGED <<now, userToken, projectTasks, production, requests>>

DecideSetProjectInterval ==
  \E name \in RecordNames, endDate \in {toISOString(now - 1),
                                        toISOString(now + 1)} :
    /\ ToolCall("decide_set_project_interval", name, "Project", endDate,
                NoItem, setProjectInterval(name, toISOString(now), endDate))
    /\ UNCHANGED <<now, userToken, projectTasks, production, requests>>

DecideSetTaskAlert ==
  \E name \in RecordNames :
    /\ ToolCall("decide_set_task_alert", name, "Task", toISOString(now + 1),
                NoItem, setTaskAlert(name, toISOString(now + 1)))
    /\ UNCHANGED <<now, userToken, projectTasks, production, requests>>

\* the optional arguments of the create tools
StartDateArgs(t) == {null, toISOString(t + 1)}

ProjectArgs == {null, <<"do1">>}

CollectionArgs == {null, <<"collection_1">>}

\* a call of a create tool: made is the record the handler builds
CreateCall(tool, itemType, record, text) ==
  last' = IF userToken = null
            THEN Call(tool, "", itemType, "", 0, now, NoItem, NoDecision,
                      NotAuthenticated)
            ELSE [Call(tool, record.recordName, itemType, "", 0, now, NoItem,
                       NoDecision,
                       Outcome("OK", Msg(itemType, record.recordName,
                                         text, null, 0, "")))
                    EXCEPT !.made = record]

AssessCreateTask ==
  \E startDate \in StartDateArgs(now), taskPriority \in TaskPriorityArgs,
     projectRecordName \in ProjectArgs,
     collectionRecordName \in CollectionArgs :
    /\ CreateCall("assess_create_task", "Task",
                  createTask("a task", startDate, taskPriority,
                             projectRecordName, collectionRecordName, now,
                             "task_ck_a1"), CreatedText)
    /\ UNCHANGED <<now, userToken, projectTasks, production, requests>>

AssessCreateProject ==
  \E startDate \in StartDateArgs(now),
     collectionRecordName \in CollectionArgs :
    /\ CreateCall("assess_create_project", "Project",
                  createProject("a project", startDate, collectionRecordName,
                                now, "project_ck_a1"), CreatedText)
    /\ UNCHANGED <<now, userToken, projectTasks, production, requests>>

AssessCreateIdea ==
  \E collectionRecordName \in CollectionArgs :
    /\ CreateCall("assess_create_idea", "Idea",
                  createIdea("an idea", collectionRecordName, now,
                             "idea_ck_a1"), CapturedText)
    /\ UNCHANGED <<now, userToken, projectTasks, production, requests>>

\* the tasks and the projects the membership tools are called with
MemberTasks == {"assess1", "do1"}

MemberProjects == {"do1"}

AssessAddTaskToProject ==
  \E task \in MemberTasks, project \in MemberProjects :
    /\ ToolCall("assess_add_task_to_project", task, "Task", <<project>>,
                NoItem, addTaskToProject(task, project))
    /\ projectTasks' = IF userToken = null THEN projectTasks
                       ELSE projectTasks \cup {<<task, project>>}
    /\ UNCHANGED <<now, userToken, production, requests>>

AssessRemoveTaskFromProject ==
  \E task \in MemberTasks, project \in MemberProjects :
    /\ ToolCall("assess_remove_task_from_project", task, "Task", <<project>>,
                NoItem, removeTaskFromProject(task, project))
    /\ projectTasks' = IF userToken = null THEN projectTasks
                       ELSE projectTasks \ {<<task, project>>}
    /\ UNCHANGED <<now, userToken, production, requests>>

Next ==
  \/ Tick
  \/ AuthenticateUser
  \/ MoveTask
  \/ MoveProject
  \/ MoveToRealm
  \/ DoMarkTaskAsDone
  \/ DoMarkProjectAsDone
  \/ AssessEditTask
  \/ AssessEditProject
  \/ AssessEditIdea
  \/ DecideAssignContext
  \/ DecideSetTaskDueDate
  \/ DecideSetProjectInterval
  \/ DecideSetTaskAlert
  \/ AssessCreateTask
  \/ AssessCreateProject
  \/ AssessCreateIdea
  \/ AssessAddTaskToProject
  \/ AssessRemoveTaskFromProject

Spec == Init /\ [][Next]_vars

(* ---------------- the validator on arbitrary item snapshots ------------ *)

\* the due dates of the snapshots: around the instants of the behaviour,
\* so that a due date before, at and after the validation instant occurs
DueDates == {null} \cup {toISOString(t) : t \in (T0 - 1) .. (T0 + MaxTicks + 1)}

Snapshots ==
  {Item("item", itemType, realmId, ctx, endDate) :
     itemType \in ItemTypes,
     realmId \in {REALM_ASSESS_ID, REALM_DECIDE_ID, REALM_DO_ID},
     ctx \in {null, <<"context_work">>},
     endDate \in DueDates}

RealmIds == {REALM_ASSESS_ID, REALM_DECIDE_ID, REALM_DO_ID}

ValidateTransition ==
  \E item \in Snapshots, targetRealmId \in RealmIds :
    /\ last' = Call("validateTransition", item.recordName, item.type, "",
                    targetRealmId, now, item,
                    validateSwitch(item, targetRealmId, item.type, now),
                    Outcome("OK", Msg("", "", "", null, 0, "")))
    /\ UNCHANGED <<now, userToken, projectTasks, production, requests>>

\* the ids realmIdToString is applied to: the three realms and both
\* neighbours
RealmIdInputs == (REALM_ASSESS_ID - 1) .. (REALM_DO_ID + 1)

InvalidRealmStringText == "Invalid realm string: ${realmStr}"

InvalidRealmIdText == "Invalid realm ID: ${realmId}"

\* realmIdToString(realmStringToId(realmStr)): target is the label given,
\* targetId the id it maps to and reply.text the label that comes back
RealmStringRoundTrip ==
  \E realmStr \in RealmStrings :
    LET there == realmStringToId(realmStr)
        back == realmIdToString(there.id)
    IN  /\ last' = Call("realmStringRoundTrip", "", "", realmStr, there.id,
                        now, NoItem, NoDecision,
                        IF there.threw
                          THEN Outcome("InvalidParams",
                                 Msg("", realmStr, InvalidRealmStringText,
                                     null, 0, ""))
                          ELSE IF back.threw
                            THEN Outcome("InternalError",
                                   Msg("", "", InvalidRealmIdText, null,
                                       there.id, ""))
                            ELSE Outcome("OK",
                                   Msg("", "", back.label, null, 0, "")))
        /\ UNCHANGED <<now, userToken, projectTasks, production, requests>>

\* realmStringToId(realmIdToString(realmId)): targetId is the id given,
\* target the label it maps to and reply.realmId the id that comes back
RealmIdRoundTrip ==
  \E realmId \in RealmIdInputs :
    LET there == realmIdToString(realmId)
        back == realmStringToId(there.label)
    IN  /\ last' = Call("realmIdRoundTrip", "", "", there.label, realmId,
                        now, NoItem, NoDecision,
                        IF there.threw
                          THEN Outcome("InternalError",
                                 Msg("", "", InvalidRealmIdText, null,
                                     realmId, ""))
                          ELSE IF back.threw
                            THEN Outcome("InvalidParams",
                                   Msg("", there.label,
                                       InvalidRealmStringText, null, 0, ""))
                            ELSE Outcome("OK",
                                   Msg("", "", "", null, back.id, "")))
        /\ UNCHANGED <<now, userToken, projectTasks, production, requests>>

\* records of the CloudKit database: a task overdue from the start, a task
\* with neither context nor due date, a task that is ready throughout, and
\* two projects, the first overdue longer than the task
TaskA ==
  Record("task_a", "Task", REALM_DECIDE_ID, <<"context_work">>,
         <<"context_work">>, <<T0 - 1>>, T0 - 5)

TaskB == Record("task_b", "Task", REALM_DECIDE_ID, null, null, null, T0 - 4)

TaskC ==
  Record("task_c", "Task", REALM_DECIDE_ID, <<"context_home">>,
         <<"context_home">>, <<T0 + MaxTicks + 1>>, T0 - 3)

ProjectA ==
  Record("project_a", "Projects", REALM_DECIDE_ID, null, <<"context_work">>,
         <<T0 - 2>>, T0 - 2)

ProjectB ==
  Record("project_b", "Projects", REALM_DECIDE_ID, null, <<"context_work">>,
         <<T0 + 1>>, T0 - 1)

\* the batches handed to saveRecord and saveRecords
Batches == {<<TaskA>>, <<TaskA, TaskC>>, <<TaskB, TaskA, TaskC>>}

\* the subsequences of a batch: what the database may have saved of it
RECURSIVE SubBatches(_)
SubBatches(records) ==
  IF records = <<>> THEN {<<>>}
  ELSE LET rest == SubBatches(Tail(records))
       IN  rest \cup {<<Head(records)>> \o saved : saved \in rest}

\* what the database may answer to a save of the batch
SaveResponses(records) ==
  {SaveResponse(TRUE, FALSE, <<>>)}
    \cup {SaveResponse(FALSE, saved # records, saved) :
            saved \in SubBatches(records)}

SaveCall(tool, records, response, result) ==
  [Call(tool, "", "", "", 0, now, NoItem, NoDecision,
        IF result.threw
          THEN Outcome("Error", Msg("", "", SaveFailedText, null, 0, ""))
          ELSE Outcome("OK", Msg("", "", "", null, 0, "")))
     EXCEPT !.given = records, !.items = result.records,
            !.fault = response.threw \/ response.hasErrors]

SaveRecord ==
  \E records \in {batch \in Batches : Len(batch) = 1} :
    \E response \in SaveResponses(records) :
      /\ last' = SaveCall("saveRecord", records, response,
                          saveRecord(records[1], response))
      /\ UNCHANGED <<now, userToken, projectTasks, production, requests>>

SaveRecords ==
  \E records \in Batches :
    \E response \in SaveResponses(records) :
      /\ last' = SaveCall("saveRecords", records, response,
                          saveRecords(records, response))
      /\ UNCHANGED <<now, userToken, projectTasks, production, requests>>

\* the id of a resource of the owner: the owner's user id and a suffix
ResourceOf(userRecordName) ==
  generateUserId(userRecordName) \o <<"_", "t", "a", "s", "k">>

GrantedText == "Access granted for operation: ${operation}"

DeniedText == "Access denied for resource: ${resourceId}"

\* checkPermissions for the session of a user on a resource of the owner
\* (target; "" when no resource id is passed); the verdict is logged
CheckPermissions ==
  \E user \in UserRecordNames, owner \in UserRecordNames \cup {""} :
    LET granted ==
          checkPermissions(generateUserId(user),
                           IF owner = "" THEN null ELSE <<ResourceOf(owner)>>)
    IN  /\ last' = Call("checkPermissions", user, "", owner, 0, now, NoItem,
                        NoDecision,
                        IF granted
                          THEN Outcome("OK",
                                 Msg("", "", GrantedText, null, 0, ""))
                          ELSE Outcome("Denied",
                                 Msg("", "", DeniedText, null, 0, "")))
        /\ auditLog' = logAudit(auditLog,
                         AuditEntry(now, "permission_check", granted))
        /\ UNCHANGED <<now, userToken, projectTasks, productionMode,
                       authenticated, sessions, currentSession, store,
                       recent, requests, rateLimitMap, passes, lapsed,
                       invalidated, starting>>

(* ---------------- the classification queries and the session ---------- *)

\* the record the mock implementations list for an item
MockRecord(recordName, recordType, contextRecordName, endDate) ==
  Record(recordName, recordType, REALM_DECIDE_ID, contextRecordName,
         contextRecordName, endDate, 0)

\* getStalledItemsInDecide: the CloudKit implementation and the mock one
stalledItemsCloudKit(db, ok, t) ==
  LET stalledTasks == getTasksInDecideStalled(db, ok, t)
      projects == getProjectsByRealm(db, ok, REALM_DECIDE_ID)
  IN  [threw |-> stalledTasks.threw \/ projects.threw,
       records |-> stalledTasks.records
                     \o stalledProjects(projects.records, t)]

stalledItemsMock(t) ==
  <<MockRecord("task_stalled_1", "Task", <<"context_work">>, <<t - DayMs>>),
    MockRecord("project_stalled_1", "Projects", <<"context_work">>,
               <<t - (7 * DayMs)>>)>>

\* getUndecidedItemsInDecide
undecidedItemsCloudKit(db, ok) ==
  LET undecidedTasks == getTasksInDecideUndecided(db, ok)
      allProjects == getProjectsByRealm(db, ok, REALM_DECIDE_ID)
  IN  [threw |-> undecidedTasks.threw \/ allProjects.threw,
       records |-> undecidedTasks.records
                     \o undecidedProjects(allProjects.records)]

undecidedItemsMock ==
  <<MockRecord("task_undecided_1", "Task", null, null),
    MockRecord("task_undecided_2", "Task", <<"context_home">>, null),
    MockRecord("project_undecided_1", "Projects", null, null)>>

\* getReadyItemsInDecide
readyItemsCloudKit(db, ok, t) ==
  LET readyTasks == getTasksInDecideReady(db, ok, t)
      allProjects == getProjectsByRealm(db, ok, REALM_DECIDE_ID)
  IN  [threw |-> readyTasks.threw \/ allProjects.threw,
       records |-> readyTasks.records
                     \o readyProjects(allProjects.records, t)]

readyItemsMock(t) ==
  <<MockRecord("task_ready_1", "Task", <<"context_personal">>,
               <<t + DayMs>>),
    MockRecord("task_ready_2", "Task", <<"context_work">>,
               <<t + (7 * DayMs)>>),
    MockRecord("project_ready_1", "Projects", <<"context_personal">>,
               <<t + (7 * DayMs)>>)>>

\* what the user's CloudKit database may hold
Stores ==
  {<<>>, <<TaskA, ProjectA>>, <<ProjectB, ProjectA>>,
   <<TaskB, TaskA, TaskC>>, <<TaskC, TaskA, TaskB, ProjectA, ProjectB>>}

\* a task in Decide with a context and a due date one tick after the start
TaskD ==
  Record("task_d", "Task", REALM_DECIDE_ID, <<"context_home">>,
         <<"context_home">>, <<T0 + 1>>, T0 - 1)

\* a query of the service evaluated on a database at the present instant:
\* given is the database, items the records it returns
ServiceQuery(tool, db, result) ==
  [Call(tool, "", "", "", 0, now, NoItem, NoDecision,
        Outcome("OK", Msg("", "", "", null, 0, "")))
     EXCEPT !.given = db, !.items = result]

\* the three classifications of the Decide realm evaluated at one instant:
\* the undecided, the stalled and the ready items, one list after the other
GetItemsInDecide ==
  \E db \in Stores \cup {<<TaskD, TaskB>>} :
    /\ last' = ServiceQuery("getItemsInDecide", db,
                     undecidedItemsCloudKit(db, TRUE).records
                       \o stalledItemsCloudKit(db, TRUE, now).records
                       \o readyItemsCloudKit(db, TRUE, now).records)
    /\ UNCHANGED <<now, userToken, projectTasks, production, requests>>

\* a task in the Do realm
DoTask(recordName, endDate, taskPriority) ==
  [Record(recordName, "Task", REALM_DO_ID, <<"context_work">>,
          <<"context_work">>, <<endDate>>, T0 - 1)
     EXCEPT !.taskPriority = <<taskPriority>>]

\* due dates around the bounds of the three windows
DoEndDates ==
  {T0 - 1, T0, T0 + 1, T0 + DayMs - 1, T0 + DayMs, T0 + 2 * DayMs - 1,
   T0 + 2 * DayMs, T0 + 2 * DayMs + 1, T0 + 7 * DayMs,
   T0 + 7 * DayMs + MaxTicks + 1}

DoStores ==
  {<<DoTask("task_do", endDate, 2)>> : endDate \in DoEndDates}
    \cup {<<DoTask("task_do", T0 + 1, 2), DoTask("task_do_2", T0, 1),
            TaskA>>}

\* the three due-date queries of the Do realm evaluated at one instant: the
\* tasks due today, tomorrow and soon, one list after the other
GetTasksInDo ==
  \E db \in DoStores :
    /\ last' = ServiceQuery("getTasksInDo", db,
                     getTasksInDoToday(db, TRUE, now).records
                       \o getTasksInDoTomorrow(db, TRUE, now).records
                       \o getTasksInDoSoon(db, TRUE, now).records)
    /\ UNCHANGED <<now, userToken, projectTasks, production, requests>>

NextValidate ==
  \/ Tick
  \/ ValidateTransition
  \/ RealmStringRoundTrip
  \/ RealmIdRoundTrip
  \/ SaveRecord
  \/ SaveRecords
  \/ GetItemsInDecide
  \/ GetTasksInDo

SpecValidate == Init /\ [][NextValidate]_vars

SessionInvalidText == "Session invalid or expired. Please authenticate again."

\* validateSession of the server's current session: the sessions of that id
\* in the map, and those of them that have not expired
Found == {session \in sessions : <<session.sessionId>> = currentSession}

Live == {session \in Found : ~(now > session.expiresAt)}

\* a query answered: what the history variable keeps of it
Answer(tool, items, source) ==
  [tool |-> tool, items |-> items, source |-> source]

QueryCall(tool, outcome, items, source, fault) ==
  [Call(tool, "", "", "", 0, now, NoItem, NoDecision, outcome)
     EXCEPT !.items = items, !.source = source, !.fault = fault]

\* a query tool: the handler's gate, then withCloudKitOrMock, which
\* validates the session, runs the CloudKit implementation in production
\* mode and the mock one otherwise or when the CloudKit one throws; cloud is
\* the outcome of the CloudKit implementation and mock the mock's items
Query(tool, cloud, mock, text) ==
  LET useMock == ~productionMode \/ cloud.threw
      items == IF useMock THEN mock ELSE cloud.records
      source == IF useMock THEN "mock" ELSE "cloudkit"
  IN  IF userToken = null
        THEN /\ last' = QueryCall(tool, NotAuthenticated, <<>>, "", FALSE)
             /\ UNCHANGED <<userToken, sessions, currentSession, recent,
                            auditLog, invalidated>>
      ELSE IF productionMode /\ currentSession # null /\ Live = {}
        THEN /\ sessions' = sessions \ Found
             /\ invalidated' = invalidated
                                 \cup {session.sessionId : session \in Found}
             /\ auditLog' = logAudit(auditLog,
                              AuditEntry(now, "validate_session", FALSE))
             /\ currentSession' = null
             /\ userToken' = null
             /\ recent' = <<>>
             /\ last' = QueryCall(tool,
                          Outcome("InvalidParams",
                            Msg("", "", SessionInvalidText, null, 0, "")),
                          <<>>, "", FALSE)
        ELSE /\ last' = QueryCall(tool,
                          Outcome("OK", Msg("", "", text, null, 0, "")),
                          items, source, productionMode /\ cloud.threw)
             /\ recent' = (IF recent = <<>> THEN <<>>
                           ELSE <<recent[Len(recent)]>>)
                            \o <<Answer(tool, items, source)>>
             /\ auditLog' = IF productionMode /\ currentSession # null
                              THEN logAudit(auditLog,
                                     AuditEntry(now, "validate_session",
                                                TRUE))
                            ELSE auditLog
             /\ UNCHANGED <<userToken, sessions, currentSession,
                            invalidated>>

StalledText == "Stalled items in Decide realm (past due dates):"

UndecidedText ==
  "Undecided items in Decide realm (need context/timeline decisions):"

ReadyText == "Ready items in Decide realm (context + future due date set):"

\* fault: the database answers the query with errors; the service's own
\* check of its authenticated flag fails the query as well
GetStalledItemsInDecide ==
  \E fault \in BOOLEAN :
    /\ Query("get_stalled_items_in_decide",
             stalledItemsCloudKit(store, authenticated /\ ~fault, now),
             stalledItemsMock(now), StalledText)
    /\ UNCHANGED <<now, projectTasks, productionMode, authenticated, store,
                   requests, rateLimitMap, passes, lapsed, starting>>

GetUndecidedItemsInDecide ==
  \E fault \in BOOLEAN :
    /\ Query("get_undecided_items_in_decide",
             undecidedItemsCloudKit(store, authenticated /\ ~fault),
             undecidedItemsMock, UndecidedText)
    /\ UNCHANGED <<now, projectTasks, productionMode, authenticated, store,
                   requests, rateLimitMap, passes, lapsed, starting>>

GetReadyItemsInDecide ==
  \E fault \in BOOLEAN :
    /\ Query("get_ready_items_in_decide",
             readyItemsCloudKit(store, authenticated /\ ~fault, now),
             readyItemsMock(now), ReadyText)
    /\ UNCHANGED <<now, projectTasks, productionMode, authenticated, store,
                   requests, rateLimitMap, passes, lapsed, starting>>

\* the periodic clean-up of the session map
SessionCleanup ==
  /\ cleanedUp(sessions, now) # {}
  /\ sessions' = sessions \ cleanedUp(sessions, now)
  /\ recent' = <<>>
  /\ UNCHANGED <<now, userToken, last, projectTasks, productionMode,
                 authenticated, currentSession, store, requests, service>>

\* the database is written by the user's devices, never by the server
DatabaseChanges ==
  /\ store' \in Stores \ {store}
  /\ recent' = <<>>
  /\ UNCHANGED <<now, userToken, last, projectTasks, productionMode,
                 authenticated, sessions, currentSession, requests, service>>

\* a deployment: production mode when initializeCloudKit succeeded
InitProduction ==
  /\ now = T0
  /\ userToken = null
  /\ last = Call("none", "", "", "", 0, T0, NoItem, NoDecision,
                 Outcome("OK", Msg("", "", "", null, 0, "")))
  /\ projectTasks = {}
  /\ productionMode \in BOOLEAN
  /\ authenticated = FALSE
  /\ sessions = {}
  /\ currentSession = null
  /\ store \in Stores
  /\ recent = <<>>
  /\ requests = <<>>
  /\ rateLimitMap = <<>>
  /\ passes = <<>>
  /\ auditLog = <<>>
  /\ lapsed = {}
  /\ invalidated = {}
  /\ starting = FALSE

NextProduction ==
  \/ Tick
  \/ AuthenticateUser
  \/ DoMarkTaskAsDone
  \/ GetStalledItemsInDecide
  \/ GetUndecidedItemsInDecide
  \/ GetReadyItemsInDecide
  \/ SessionCleanup
  \/ DatabaseChanges

SpecProduction == InitProduction /\ [][NextProduction]_vars

(* ---------------- the session operations -------------------------------- *)

\* the session ids a behaviour can create
SessionIds == T0 .. (T0 + MaxTicks)

SessionNotFoundText == "Session not found"

\* a call of a session operation on a session id (arg); the reply's date is
\* the expiry of the session the operation found under that id, if any
SessionCall(tool, sessionId, code, text) ==
  LET found == {session \in sessions : session.sessionId = sessionId}
      outcome == Outcome(code,
                   Msg("", "", text,
                       IF found = {} THEN null
                       ELSE <<(CHOOSE session \in found : TRUE).expiresAt>>,
                       0, ""))
  IN  [Call(tool, "", "", "", 0, now, NoItem, NoDecision, outcome)
         EXCEPT !.arg = <<sessionId>>]

\* UserAuthService.validateSession, called on the service itself
ValidateSession ==
  \E sessionId \in SessionIds :
    LET validation == validateSession(sessions, sessionId, now)
    IN  /\ sessions' = validation.sessions
        /\ invalidated' = IF validation.session = null
                               /\ sessionId \in {session.sessionId :
                                                  session \in sessions}
                            THEN invalidated \cup {sessionId}
                          ELSE invalidated
        /\ last' = IF validation.session # null
                     THEN SessionCall("validateSession", sessionId, "OK", "")
                   ELSE SessionCall("validateSession", sessionId,
                                    "Invalid", "")
        /\ recent' = <<>>
        /\ UNCHANGED <<now, userToken, projectTasks, productionMode,
                       authenticated, currentSession, store, requests,
                       rateLimitMap, passes, auditLog, lapsed, starting>>

\* AuthMiddleware.validateRequest: validateSession, and the verdict logged
ValidateRequest ==
  \E sessionId \in SessionIds :
    LET validation == validateSession(sessions, sessionId, now)
    IN  /\ sessions' = validation.sessions
        /\ invalidated' = IF validation.session = null
                               /\ sessionId \in {session.sessionId :
                                                  session \in sessions}
                            THEN invalidated \cup {sessionId}
                          ELSE invalidated
        /\ auditLog' = logAudit(auditLog,
                         AuditEntry(now, "validate_session",
                                    validation.session # null))
        /\ last' = IF validation.session # null
                     THEN SessionCall("validateRequest", sessionId, "OK", "")
                   ELSE SessionCall("validateRequest", sessionId,
                                    "Invalid", SessionInvalidText)
        /\ recent' = <<>>
        /\ UNCHANGED <<now, userToken, projectTasks, productionMode,
                       authenticated, currentSession, store, requests,
                       rateLimitMap, passes, lapsed, starting>>

RefreshSession ==
  \E sessionId \in SessionIds :
    LET refreshed == refreshSession(sessions, sessionId, now)
    IN  /\ sessions' = refreshed.sessions
        /\ last' = IF refreshed.success
                     THEN SessionCall("refreshSession", sessionId, "OK", "")
                   ELSE SessionCall("refreshSession", sessionId, "Failed",
                                    SessionNotFoundText)
        /\ recent' = <<>>
        /\ UNCHANGED <<now, userToken, projectTasks, productionMode,
                       authenticated, currentSession, store, requests,
                       service>>

RevokeSession ==
  \E sessionId \in SessionIds :
    /\ sessions' = revokeSession(sessions, sessionId)
    /\ last' = SessionCall("revokeSession", sessionId, "OK", "")
    /\ recent' = <<>>
    /\ UNCHANGED <<now, userToken, projectTasks, productionMode,
                   authenticated, currentSession, store, requests, service>>

\* the authentication service and its middleware in a production deployment
InitSessions ==
  /\ InitProduction
  /\ productionMode
  /\ store = <<>>

NextSessions ==
  \/ Tick
  \/ AuthenticateUser
  \/ ValidateSession
  \/ RefreshSession
  \/ RevokeSession
  \/ SessionCleanup

SpecSessions == InitSessions /\ [][NextSessions]_vars

\* the middleware's calls, with the audit log they keep
NextAudit ==
  \/ AuthenticateUser
  \/ ValidateRequest
  \/ CheckPermissions

SpecAudit == InitSessions /\ [][NextAudit]_vars

\* the clean-up timer keeps firing
SpecSessionsFair == SpecSessions /\ WF_vars(SessionCleanup)

(* ---------------- the start of the server ------------------------------- *)

\* the constructor has returned and the server is connected, while the
\* initializeCloudKit call it started has not completed
InitStartup ==
  /\ now = T0
  /\ userToken = null
  /\ last = Call("none", "", "", "", 0, T0, NoItem, NoDecision,
                 Outcome("OK", Msg("", "", "", null, 0, "")))
  /\ projectTasks = {}
  /\ productionMode = FALSE
  /\ authenticated = FALSE
  /\ sessions = {}
  /\ currentSession = null
  /\ store \in Stores
  /\ recent = <<>>
  /\ requests = <<>>
  /\ rateLimitMap = <<>>
  /\ passes = <<>>
  /\ auditLog = <<>>
  /\ lapsed = {}
  /\ invalidated = {}
  /\ starting = TRUE

\* initializeCloudKit completes: production mode when the services were
\* loaded and initialised, mock mode otherwise
InitializeCloudKit ==
  /\ starting
  /\ starting' = FALSE
  /\ productionMode' \in BOOLEAN
  /\ recent' = <<>>
  /\ UNCHANGED <<now, userToken, last, projectTasks, authenticated, sessions,
                 currentSession, store, requests, rateLimitMap, passes,
                 auditLog, lapsed, invalidated>>

NextStartup ==
  \/ InitializeCloudKit
  \/ Tick
  \/ AuthenticateUser
  \/ GetStalledItemsInDecide

SpecStartup == InitStartup /\ [][NextStartup]_vars

(* ---------------- requests handled concurrently ------------------------ *)

\* how many move requests the server handles at once
MaxInFlight == 2

\* a move request being handled: fetched is the snapshot its handler read,
\* turn the order in which it was answered (0 while it awaits)
Request(tool, name, target, fetched) ==
  [tool |-> tool, name |-> name, target |-> target, fetched |-> fetched,
   pc |-> "fetched", code |-> "", turn |-> 0]

Answered == {i \in 1..Len(requests) : requests[i].pc = "answered"}

\* the tasks the concurrent requests move: one of each realm
MovedNames == {"assess1", "ready", "do1"}

\* a move request arrives: the handler's gate, then moveTaskToRealm calls
\* validateRealmTransition, which reads the item and awaits; nothing is
\* locked, so another request may arrive before this one resumes
Receive ==
  \E tool \in MoveTaskTools, name \in MovedNames :
    /\ Len(requests) < MaxInFlight
    /\ Answered = {}
    /\ IF userToken = null
         THEN /\ last' = Call(tool[1], name, "Task", tool[2],
                              realmStringToId(tool[2]).id, now, NoItem,
                              NoDecision, NotAuthenticated)
              /\ UNCHANGED requests
         ELSE /\ requests' = Append(requests,
                               Request(tool[1], name, tool[2],
                                       mockFetchItem(name, "Task", now)))
              /\ UNCHANGED last
    /\ UNCHANGED <<now, userToken, projectTasks, production>>

\* a request resumes: the validator decides on the snapshot read earlier
\* and moveItemToRealm answers
Respond ==
  \E i \in 1..Len(requests) :
    LET request == requests[i]
        targetRealmId == realmStringToId(request.target).id
        decision == validateSwitch(request.fetched, targetRealmId, "Task",
                                   now)
        outcome == IF ~decision.valid
                     THEN Outcome("InvalidParams", decision.reason)
                   ELSE moveItemToRealm(request.name, "Task", request.target)
    IN  /\ request.pc = "fetched"
        /\ last' = Call(request.tool, request.name, "Task", request.target,
                        targetRealmId, now, request.fetched, decision,
                        outcome)
        /\ requests' = [requests EXCEPT ![i].pc = "answered",
                                        ![i].code = outcome.code,
                                        ![i].turn = Cardinality(Answered) + 1]
        /\ UNCHANGED <<now, userToken, projectTasks, production>>

\* the answered requests are gone once every request has been answered
Complete ==
  /\ requests # <<>>
  /\ Answered = 1..Len(requests)
  /\ requests' = <<>>
  /\ UNCHANGED <<now, userToken, last, projectTasks, production>>

NextConcurrent ==
  \/ Tick
  \/ AuthenticateUser
  \/ Receive
  \/ Respond
  \/ Complete

SpecConcurrent == Init /\ [][NextConcurrent]_vars

(* ==================== properties of the validator ====================== *)

IsValidation == last.tool = "validateTransition"

AlreadyInText(realmId) ==
  CASE realmId = REALM_ASSESS_ID -> "is already in Assess realm"
    [] realmId = REALM_DECIDE_ID -> "is already in Decide realm"
    [] realmId = REALM_DO_ID -> "is already in Do realm"

\* C1: validating a transition to the realm the item is already in is
\* disallowed with an "already in <realm> realm" reason, whatever the item's
\* context and end timestamp are.
C1_SameRealmDisallowed ==
  (IsValidation /\ last.targetId = last.pre.realmId)
    => /\ ~last.decision.valid
       /\ last.decision.reason.text = AlreadyInText(last.pre.realmId)
       /\ last.decision.reason.itemType = last.itemType

\* a Do item with a context and a due date was validated against Do
C1_Witness ==
  /\ IsValidation
  /\ last.pre.realmId = REALM_DO_ID
  /\ last.targetId = REALM_DO_ID
  /\ last.pre.contextRecordName # null
  /\ last.pre.endDate # null
  /\ ~last.decision.valid

IsDecideToDo ==
  /\ IsValidation
  /\ last.pre.realmId = REALM_DECIDE_ID
  /\ last.targetId = REALM_DO_ID

\* C2: for an item in Decide, the transition to Do is allowed if and only if
\* the item has a context, has an end timestamp, and the end timestamp is not
\* strictly before the validation instant (equal to now is valid).
C2_DecideToDoIff ==
  IsDecideToDo
    => (last.decision.valid
          <=> /\ last.pre.contextRecordName # null
              /\ last.pre.endDate # null
              /\ ~(DateOf(last.pre.endDate) < last.at))

\* a Decide item whose due date is exactly the validation instant was allowed
C2_Witness ==
  /\ IsDecideToDo
  /\ last.pre.contextRecordName # null
  /\ last.pre.endDate = toISOString(last.at)
  /\ last.decision.valid

MissingContextText == "must have a context assigned before moving to Do realm"

MissingDueDateText == "must have a due date set before moving to Do realm"

PastDueDateText ==
  "has a past due date (${date}) - update due date or move back to Assess"

\* what a reason text mentions
MentionsMissingContext(text) == text = MissingContextText

MentionsMissingDueDate(text) == text = MissingDueDateText

\* C3 (as claimed): a disallowed Decide -> Do names the failed precondition,
\* and for an item with neither context nor end timestamp the reason
\* mentions both the missing context and the missing due date.
C3_ReasonNamesBothMissing ==
  (IsDecideToDo /\ last.pre.contextRecordName = null
                /\ last.pre.endDate = null)
    => /\ ~last.decision.valid
       /\ MentionsMissingContext(last.decision.reason.text)
       /\ MentionsMissingDueDate(last.decision.reason.text)

\* C3 (amended): a disallowed Decide -> Do names the first precondition that
\* failed, in the order context, due date, past due date; for an item with
\* neither context nor end timestamp the reason is the missing context.
C3_ReasonNamesFirstFailed ==
  (IsDecideToDo /\ ~last.decision.valid)
    => /\ last.decision.reason.itemType = last.itemType
       /\ last.decision.reason.text =
            IF last.pre.contextRecordName = null THEN MissingContextText
            ELSE IF last.pre.endDate = null THEN MissingDueDateText
            ELSE PastDueDateText
       /\ (last.decision.reason.text = PastDueDateText
             => /\ last.decision.reason.date = last.pre.endDate
                /\ DateOf(last.pre.endDate) < last.at)

\* a Decide item with neither context nor due date was refused the move to Do
C3_Witness ==
  /\ IsDecideToDo
  /\ last.pre.contextRecordName = null
  /\ last.pre.endDate = null
  /\ ~last.decision.valid
  /\ last.decision.reason.text = MissingContextText

SkipDecideText ==
  "moved directly from Assess to Do (skipping Decide) - ensure context and due date are set"

\* C4: for an item in Assess the transition directly to Do is allowed
\* unconditionally, with an advisory reason that Decide was skipped and that
\* context and due date remain to be ensured.
C4_AssessToDoAllowed ==
  (IsValidation /\ last.pre.realmId = REALM_ASSESS_ID
                /\ last.targetId = REALM_DO_ID)
    => /\ last.decision.valid
       /\ last.decision.reason.text = SkipDecideText
       /\ last.decision.reason.itemType = last.itemType

\* an Assess item with neither context nor due date was allowed into Do
C4_Witness ==
  /\ IsValidation
  /\ last.pre.realmId = REALM_ASSESS_ID
  /\ last.targetId = REALM_DO_ID
  /\ last.pre.contextRecordName = null
  /\ last.pre.endDate = null
  /\ last.decision.valid

\* C5: Assess -> Decide, Decide -> Assess, Do -> Assess and Do -> Decide are
\* allowed for every item, whatever its context and end timestamp.
C5_UnconditionalMoves ==
  (/\ IsValidation
   /\ <<last.pre.realmId, last.targetId>> \in
        {<<REALM_ASSESS_ID, REALM_DECIDE_ID>>,
         <<REALM_DECIDE_ID, REALM_ASSESS_ID>>,
         <<REALM_DO_ID, REALM_ASSESS_ID>>,
         <<REALM_DO_ID, REALM_DECIDE_ID>>})
    => last.decision.valid

\* a Do item with neither context nor due date was allowed back to Decide
C5_Witness ==
  /\ IsValidation
  /\ last.pre.realmId = REALM_DO_ID
  /\ last.targetId = REALM_DECIDE_ID
  /\ last.pre.contextRecordName = null
  /\ last.pre.endDate = null
  /\ last.decision.valid

(* ==================== properties of the tool calls ===================== *)

MoveToolNames ==
  {"decide_move_task_to_do", "decide_move_task_to_assess_from_decide",
   "decide_move_project_to_do", "decide_move_project_to_assess_from_decide",
   "moveToRealm"}

\* the last call was a realm move that passed the authentication gate
IsMove == last.tool \in MoveToolNames /\ last.code # "InvalidRequest"

IsMoveApplied == IsMove /\ last.code = "OK"

\* the item of the last call as any operation running now reads it
Current == mockFetchItem(last.name, last.itemType, now)

\* C6 (as claimed): after a realm move to Assess succeeds, from Decide or
\* from Do, the stored item has realm Assess, no context and no end timestamp.
C6_MovedToAssessIsBlank ==
  (IsMoveApplied /\ last.targetId = REALM_ASSESS_ID
                 /\ last.pre.realmId \in {REALM_DECIDE_ID, REALM_DO_ID})
    => /\ Current.realmId = REALM_ASSESS_ID
       /\ Current.contextRecordName = null
       /\ Current.endDate = null

\* C7: a successful move from Do to Decide leaves the context and the end
\* timestamp as they were: the update announces no clean-up, and the item
\* read again has the context, and at the instant of the move the end
\* timestamp, it had before.
C7_DoToDecideKeepsFields ==
  (IsMoveApplied /\ last.pre.realmId = REALM_DO_ID
                 /\ last.targetId = REALM_DECIDE_ID)
    => /\ last.reply.note = ""
       /\ last.reply.realmId = REALM_DECIDE_ID
       /\ Current.contextRecordName = last.pre.contextRecordName
       /\ (now = last.at => Current.endDate = last.pre.endDate)

\* a Do item holding a context and a due date was moved back to Decide
C7_Witness ==
  /\ IsMoveApplied
  /\ last.pre.realmId = REALM_DO_ID
  /\ last.targetId = REALM_DECIDE_ID
  /\ last.pre.contextRecordName # null
  /\ last.pre.endDate # null

\* the validator ran for the last move and disallowed it
IsMoveDisallowed == IsMove /\ last.decision # NoDecision /\ ~last.decision.valid

\* C8: when the validator disallows a move of a task or project, the move
\* fails with an error carrying the validator's reason, and the item's realm,
\* context and end timestamp are left as they were.
C8_DisallowedMoveFails ==
  IsMoveDisallowed
    => /\ last.code = "InvalidParams"
       /\ last.reply = last.decision.reason
       /\ Current.realmId = last.pre.realmId
       /\ Current.contextRecordName = last.pre.contextRecordName
       /\ (now = last.at => Current.endDate = last.pre.endDate)

\* a task in Decide without context was refused the move to Do
C8_Witness ==
  /\ IsMoveDisallowed
  /\ last.itemType = "Task"
  /\ last.pre.realmId = REALM_DECIDE_ID
  /\ last.targetId = REALM_DO_ID
  /\ last.code = "InvalidParams"
  /\ last.reply.text = MissingContextText

\* C9 (as claimed): after a realm move is allowed and applied, every later
\* operation on the item sees the target realm as its current realm.
C9_MoveIsPersisted ==
  IsMoveApplied => Current.realmId = last.targetId

MarkDoneToolNames == {"do_mark_task_as_done", "do_mark_project_as_done"}

\* the last call was a completion that passed the authentication gate
IsMarkDone == last.tool \in MarkDoneToolNames /\ last.code # "InvalidRequest"

\* C10: marking a task or project as done is accepted only when the item is
\* in Do; for an item in Assess or Decide it fails with an error telling the
\* caller to move the item to Do first, and the item is left as it was.
C10_DoneOnlyInDo ==
  IsMarkDone
    => /\ (last.code = "OK" <=> last.pre.realmId = REALM_DO_ID)
       /\ (last.pre.realmId # REALM_DO_ID
             => /\ last.code = "InvalidParams"
                /\ last.reply.text = MustBeInDoText
                /\ last.reply.realmId = last.pre.realmId
                /\ Current.realmId = last.pre.realmId
                /\ Current.contextRecordName = last.pre.contextRecordName
                /\ (now = last.at => Current.endDate = last.pre.endDate))

\* completion of a project in Decide was refused
C10_Witness ==
  /\ IsMarkDone
  /\ last.itemType = "Project"
  /\ last.pre.realmId = REALM_DECIDE_ID
  /\ last.code = "InvalidParams"
  /\ last.reply.text = MustBeInDoText

(* ==================== completion and the realm guards ================== *)

IsDone == IsMarkDone /\ last.code = "OK"

\* C11 (as claimed): a successful completion of an item in Do sets the
\* item's end timestamp to the instant of the call and keeps the record in
\* the store with realm Do.
C11_DoneSetsEndTimestamp ==
  IsDone
    => /\ Current.realmId = REALM_DO_ID
       /\ Current.endDate = toISOString(last.at)

\* the tools that act on a task or a project named by the caller
ItemToolNames ==
  MoveToolNames \cup MarkDoneToolNames \cup
    {"assess_edit_task", "assess_edit_project", "decide_assign_context",
     "decide_set_task_due_date", "decide_set_project_interval",
     "decide_set_task_alert"}

\* C12 (as claimed): after any operation every task's and project's realm is
\* one of Assess (1), Decide (2) and Do (3): the item is read in one of the
\* three and no operation, completion included, answers that it put the item
\* in a fourth realm.
C12_RealmIsOneOfThree ==
  (last.tool \in ItemToolNames /\ last.itemType \in ItemTypes
     /\ last.code = "OK")
    => /\ Current.realmId \in RealmIds
       /\ (last.reply.realmId # 0 => last.reply.realmId \in RealmIds)

\* C13 (as claimed): marking a project in Do as done sets the end timestamp
\* on the project and on every task the project references.
C13_DoneCascadesToTasks ==
  (last.tool = "do_mark_project_as_done" /\ last.code = "OK")
    => \A ref \in projectTasks :
         ref[2] = last.name
           => mockFetchItem(ref[1], "Task", now).endDate # null

EditToolNames == {"assess_edit_task", "assess_edit_project"}

\* C14 (as claimed): a content edit of a task or project is accepted only
\* when the item's current realm is Assess.
C14_EditOnlyInAssess ==
  (last.tool \in EditToolNames /\ last.code # "InvalidRequest")
    => (last.code = "OK" <=> Current.realmId = REALM_ASSESS_ID)

\* the last call was a context assignment that reached assignContextToItem
IsAssignContext ==
  /\ last.tool = "decide_assign_context"
  /\ last.code # "InvalidRequest"
  /\ last.itemType \in ItemTypes

\* C15: assigning a context to a task or project is accepted only when the
\* item is in Decide; for an item in Assess or Do it fails, naming the realm
\* the item is in, and the item's context is left as it was.
C15_ContextOnlyInDecide ==
  IsAssignContext
    => /\ (last.code = "OK" <=> last.pre.realmId = REALM_DECIDE_ID)
       /\ (last.pre.realmId # REALM_DECIDE_ID
             => /\ last.code = "InvalidParams"
                /\ last.reply.text = MustBeInDecideForContextText
                /\ last.reply.realmId = last.pre.realmId
                /\ Current.contextRecordName = last.pre.contextRecordName)

\* a context assignment to a project in Do was refused
C15_Witness ==
  /\ IsAssignContext
  /\ last.itemType = "Project"
  /\ last.pre.realmId = REALM_DO_ID
  /\ last.code = "InvalidParams"
  /\ Current.contextRecordName = <<"context_work">>

\* the date argument denotes an instant strictly after t
StrictlyAfter(date, t) == ~DateParse(date).nan /\ DateParse(date).ms > t

\* C16 (as claimed): setting a task's due date is accepted only when the
\* task is in Decide and the due date is strictly after the instant of the
\* call.
C16_DueDateOnlyFutureInDecide ==
  (last.tool = "decide_set_task_due_date" /\ last.code # "InvalidRequest")
    => (last.code = "OK"
          <=> /\ last.pre.realmId = REALM_DECIDE_ID
              /\ StrictlyAfter(last.arg, last.at))

\* C17 (as claimed): setting a project's interval is accepted only when the
\* project's current realm is Decide.
C17_IntervalOnlyInDecide ==
  (last.tool = "decide_set_project_interval"
     /\ last.code # "InvalidRequest")
    => (last.code = "OK" <=> Current.realmId = REALM_DECIDE_ID)

\* C18 (as claimed): setting a task alert is accepted only when the task's
\* current realm is Decide.
C18_AlertOnlyInDecide ==
  (last.tool = "decide_set_task_alert" /\ last.code # "InvalidRequest")
    => (last.code = "OK" <=> Current.realmId = REALM_DECIDE_ID)

CreateToolNames ==
  {"assess_create_task", "assess_create_project", "assess_create_idea"}

IsCreated == last.tool \in CreateToolNames /\ last.code = "OK"

\* C19: every task, project and idea is created in Assess (realm id 1) with
\* no context and no end timestamp, whatever the arguments: the record built
\* says so, the answer says so, and a task or project read by the record
\* name it was given is read so.
C19_CreatedInAssess ==
  IsCreated
    => /\ last.made.realmId = REALM_ASSESS_ID
       /\ last.made.context = null
       /\ last.made.endDate = null
       /\ last.reply.text
            = (IF last.itemType = "Idea" THEN CapturedText ELSE CreatedText)
       /\ (last.itemType \in ItemTypes
             => /\ Current.realmId = REALM_ASSESS_ID
                /\ Current.contextRecordName = null
                /\ Current.endDate = null)

\* a task was created inside a project that is in Do, with a start date, a
\* priority and a collection
C19_Witness ==
  /\ IsCreated
  /\ last.tool = "assess_create_task"
  /\ last.made.project = <<"do1">>
  /\ last.made.collection # null
  /\ last.made.taskPriority = 5
  /\ last.made.startDate = toISOString(last.at + 1)
  /\ last.made.realmId = REALM_ASSESS_ID

(* ============================ realm labels and ids ===================== *)

RealmLabels == {"assess", "decide", "do"}

\* C20: mapping a realm label to its id and back yields the original label
\* for 'assess', 'decide' and 'do', and mapping an id to its label and back
\* yields the original id for 1, 2 and 3; a label outside the three fails
\* with InvalidParams and an id outside 1..3 with InternalError, no value
\* being returned.
C20_RealmRoundTrip ==
  /\ last.tool = "realmStringRoundTrip"
       => IF last.target \in RealmLabels
            THEN /\ last.code = "OK"
                 /\ last.targetId \in RealmIds
                 /\ last.reply.text = last.target
            ELSE /\ last.code = "InvalidParams"
                 /\ last.reply.text = InvalidRealmStringText
  /\ last.tool = "realmIdRoundTrip"
       => IF last.targetId \in RealmIds
            THEN /\ last.code = "OK"
                 /\ last.target \in RealmLabels
                 /\ last.reply.realmId = last.targetId
            ELSE /\ last.code = "InternalError"
                 /\ last.reply.text = InvalidRealmIdText

\* the id past Do was refused by realmIdToString
C20_Witness ==
  /\ last.tool = "realmIdRoundTrip"
  /\ last.targetId = REALM_DO_ID + 1
  /\ last.code = "InternalError"

(* ============================ the authentication gate ================== *)

IsToolCall == last.tool \notin {"none", "authenticate_user"}

\* C21: before any successful authenticate_user call every other tool call
\* is rejected with InvalidRequest without being dispatched (no item is
\* fetched, no record built), whatever its name and arguments; once
\* authenticate_user has succeeded, tool calls are not rejected so.
C21_GateBeforeAuthentication ==
  /\ (IsToolCall /\ userToken = null)
       => /\ last.code = "InvalidRequest"
          /\ last.reply = NotAuthenticated.reply
          /\ last.pre = NoItem
          /\ last.made = NoRecord
  /\ (IsToolCall /\ userToken # null) => last.code # "InvalidRequest"
  /\ (last.tool = "authenticate_user" /\ last.code = "InvalidRequest")
       => last.reply.text = MissingTokenText

\* an edit of a task was rejected while no user token was held
C21_Witness ==
  /\ userToken = null
  /\ last.tool = "assess_edit_task"
  /\ last.name = "assess1"
  /\ last.code = "InvalidRequest"

(* ============================ the decide_move tools ==================== *)

DecideMoveToolNames ==
  {"decide_move_task_to_do", "decide_move_project_to_do",
   "decide_move_task_to_assess_from_decide",
   "decide_move_project_to_assess_from_decide"}

\* C30 (as claimed): decide_move_task_to_do, decide_move_project_to_do,
\* decide_move_task_to_assess_from_decide and
\* decide_move_project_to_assess_from_decide move an item from Decide: on an
\* item whose current realm is not Decide they do not answer that it was
\* moved.
C30_DecideMovesOnlyFromDecide ==
  (last.tool \in DecideMoveToolNames /\ last.code # "InvalidRequest"
     /\ last.pre.realmId # REALM_DECIDE_ID)
    => last.code # "OK"

(* ============================ ready before Do ========================== *)

\* the CloudKit record that holds the values of an item
RecordOfItem(item) ==
  Record(item.recordName, IF item.type = "Task" THEN "Task" ELSE "Projects",
         item.realmId, item.contextRecordName, item.contextRecordName,
         IF item.endDate = null THEN null ELSE <<DateOf(item.endDate)>>, 0)

\* the item is listed by the Ready-in-Decide classification at instant t
IsReadyInDecide(item, t) ==
  LET db == <<RecordOfItem(item)>>
  IN  IF item.type = "Task"
        THEN getTasksInDecideReady(db, TRUE, t).records # <<>>
        ELSE readyProjects(
               getProjectsByRealm(db, TRUE, REALM_DECIDE_ID).records, t)
               # <<>>

IsSave == last.tool \in {"saveRecord", "saveRecords"}

\* C28 (as claimed): a write of several records in which some record fails
\* is reported to the caller as a fault; it never returns as a success
\* while only part of the records were written.
C28_PartialSaveIsFault ==
  (IsSave /\ last.items # last.given) => last.code # "OK"

\* the permission check was made on a resource
IsCheckOnResource == last.tool = "checkPermissions" /\ last.target # ""

\* C29 (as claimed): the permission check never grants a session access to
\* a resource that belongs to a different user, for any pair of users.
C29_OnlyOwnResources ==
  (IsCheckOnResource /\ last.code = "OK") => last.target = last.name


(* ==================== properties of a deployment ======================== *)

QueryToolNames ==
  {"get_stalled_items_in_decide", "get_undecided_items_in_decide",
   "get_ready_items_in_decide"}

\* the server's session has passed its expiry instant
SessionExpired ==
  /\ currentSession # null
  /\ now > Session(currentSession[1]).expiresAt

\* C22: in production mode, once the caller's session has expired, every
\* tool call other than authenticate_user is rejected, the mutating ones
\* included
C22_ExpiredSessionIsRejected ==
  (productionMode /\ IsToolCall /\ last.at = now /\ SessionExpired)
    => last.code # "OK"

\* a query whose result is still current: the clock, the database and the
\* session are as they were when it was answered
IsCurrentAnswer(tool) ==
  /\ last.tool = tool
  /\ last.code = "OK"
  /\ recent # <<>>

\* C23: in production mode a fault of the CloudKit store during a query is
\* reported to the caller as a fault; synthetic data is never returned in
\* place of the real records
C23_StoreFaultIsReported ==
  (productionMode /\ last.tool \in QueryToolNames /\ last.fault)
    => (last.code # "OK" /\ last.source # "mock")

\* the records of a sequence
Range(records) == {records[i] : i \in 1..Len(records)}

\* the Decide items of the database whose due date is before instant t
StalledInDecide(db, t) ==
  {record \in Range(db) :
     /\ record.realmId = REALM_DECIDE_ID
     /\ record.endDate # null
     /\ record.endDate[1] < t}

\* C25: the stalled query returns exactly the Decide items whose due date
\* is before now, in ascending order of due date across the whole result
C25_StalledExactAndAscending ==
  (productionMode /\ ~last.fault
     /\ IsCurrentAnswer("get_stalled_items_in_decide"))
    => /\ Range(last.items) = StalledInDecide(store, now)
       /\ \A i \in 1..Len(last.items) : \A j \in 1..Len(last.items) :
            i < j => last.items[i].endDate[1] <= last.items[j].endDate[1]

\* C26: the classification queries are idempotent: the same query asked
\* twice in succession at the same instant, with no write in between,
\* returns the same result set
C26_QueriesAreIdempotent ==
  (Len(recent) = 2 /\ recent[1].tool = recent[2].tool)
    => recent[1].items = recent[2].items


(* ==================== properties of concurrent requests ================= *)

\* requests i and j moved the same item from the same snapshot, and both
\* were answered as moved, j after i
BothMoved(i, j) ==
  /\ requests[i].pc = "answered" /\ requests[j].pc = "answered"
  /\ requests[i].code = "OK" /\ requests[j].code = "OK"
  /\ requests[i].name = requests[j].name
  /\ requests[i].fetched = requests[j].fetched
  /\ requests[i].turn < requests[j].turn

\* C27: two concurrent mutating requests on the same item both fetch the
\* same snapshot, both pass validation and both write, the second write
\* overwriting the first with no error: afterwards the item is in the realm
\* the request answered second moved it to
C27_SecondWriteOverwrites ==
  \A i \in 1..Len(requests) : \A j \in 1..Len(requests) :
    BothMoved(i, j)
      => mockFetchItem(requests[j].name, "Task", now).realmId
           = realmStringToId(requests[j].target).id

(* ==================== properties of the authentication state ============ *)

\* C37: in production mode, whenever the server holds a user token with an
\* unexpired session, the CloudKit service is authenticated; a later
\* authenticate_user that fails leaves the service's flag as it was
C37_TokenImpliesAuthenticated ==
  (productionMode /\ userToken # null /\ currentSession # null /\ Live # {})
    => authenticated

(* ==================== properties of the session operations ============== *)

IsValidateSession == last.tool = "validateSession"

\* C31: validateSession returns a session only if the id is in the store
\* and the instant of the call is not after the session's expiry; a session
\* it finds expired is removed from the store, and no later validateSession
\* on that id returns a session
C31_ValidateSession ==
  /\ IsValidateSession
       => (last.code = "OK"
             <=> (last.reply.date # null
                    /\ ~(last.at > last.reply.date[1])))
  /\ \A session \in sessions : session.sessionId \notin invalidated
  /\ (IsValidateSession /\ last.code = "OK") => last.arg[1] \notin invalidated

\* validateSession has refused an id it had removed as expired before
C31_Witness ==
  /\ IsValidateSession
  /\ last.code = "Invalid"
  /\ last.reply.date = null
  /\ last.arg[1] \in invalidated

\* the window of length RateWindow that ends at instant a + RateWindow
WindowCount(a) ==
  Cardinality({i \in 1..Len(passes) :
                 a < passes[i] /\ passes[i] <= a + RateWindow})

IsRateLimited(call) ==
  call.tool = "authenticate_user" /\ call.reply.note = RateLimitText

C33_LapsedNeverValidates ==
  (IsValidateSession /\ last.code = "OK" /\ last.at = now)
    => last.arg[1] \notin lapsed

\* C34: at every instant the session operations agree on whether a session
\* is expired: a session validateSession accepts is listed by
\* getActiveSessions and not deleted by the clean-up, and a session that is
\* not listed is refused
C34_OperationsAgree ==
  \A session \in sessions :
    LET accepted ==
          validateSession(sessions, session.sessionId, now).session # null
        listed == session \in getActiveSessions(sessions, now)
        cleaned == session \in cleanedUp(sessions, now)
    IN  /\ accepted => (listed /\ ~cleaned)
        /\ ~listed => ~accepted

\* the sessions a behaviour can hold
AllSessions ==
  [sessionId : SessionIds,
   expiresAt : T0 .. (T0 + MaxTicks + SessionTimeout)]

\* C35: every session that is not refreshed is eventually removed from the
\* store once its expiry has passed, provided the clean-up keeps firing
C35_ExpiredEventuallyRemoved ==
  \A session \in AllSessions :
    (session \in sessions /\ now > session.expiresAt)
      ~> (session \notin sessions)

\* a session whose expiry had passed is gone without any validateSession
\* having removed it
C35_Witness ==
  \E sessionId \in lapsed :
    /\ sessionId \notin invalidated
    /\ \A session \in sessions : session.sessionId # sessionId

(* ==================== properties of the audit log ======================= *)

AuditedTools == {"validateRequest", "checkPermissions"}

\* the entry a logged call leaves
EntryOf(call) ==
  AuditEntry(call.at,
             IF call.tool = "validateRequest" THEN "validate_session"
             ELSE "permission_check",
             call.code = "OK")

\* the last AuditLimit entries of a sequence, in their order
MostRecent(entries) ==
  LET kept == IF Len(entries) > AuditLimit THEN AuditLimit ELSE Len(entries)
  IN  [i \in 1..kept |-> entries[Len(entries) - kept + i]]

\* C40: after any sequence of validateRequest and checkPermissions calls the
\* audit log holds at most 1000 entries (AuditLimit here), the most recent
\* ones, in the order they were logged
C40_AuditLogBounded ==
  [][(last'.tool \in AuditedTools /\ (last' # last \/ auditLog' # auditLog))
       => /\ auditLog' = MostRecent(Append(auditLog, EntryOf(last')))
          /\ Len(auditLog') <= AuditLimit]_vars

\* the log is full and holds entries of both operations
C40_Witness ==
  /\ Len(auditLog) = AuditLimit
  /\ auditLog[1].operation = "validate_session"
  /\ auditLog[AuditLimit].operation = "permission_check"
  /\ auditLog[1] # auditLog[2]

(* ==================== properties of the start =========================== *)

\* C36: for every interleaving of the initialisation started in the
\* constructor with incoming requests, the server is never in production
\* mode while holding a user token the mock authentication accepted, with
\* no session to validate
C36_NoMockTokenInProduction ==
  ~(productionMode /\ userToken # null /\ currentSession = null)

\* C38: at any fixed instant, every task or project of the Decide realm is in
\* at least one of the undecided, stalled and ready classifications
C38_EveryDecideItemClassified ==
  last.tool = "getItemsInDecide" =>
    \A rec \in Range(last.given) :
      rec.realmId = REALM_DECIDE_ID => rec \in Range(last.items)

\* C39: every task of the Do realm whose due date lies between the start of
\* today and seven days from now is returned by the due-today, the
\* due-tomorrow or the due-soon query evaluated at the same instant
C39_DueWindowsLeaveNoGap ==
  last.tool = "getTasksInDo" =>
    \A rec \in Range(last.given) :
      (/\ rec.recordType = "Task"
       /\ rec.realmId = REALM_DO_ID
       /\ rec.endDate # null
       /\ startOfDay(last.at) <= rec.endDate[1]
       /\ rec.endDate[1] <= last.at + 7 * DayMs)
        => rec \in Range(last.items)

====
